---- MODULE Spec2Model ----
(***************************************************************************)
(* KrishiGPT conversation engine (src/ai_engine.py): the history store     *)
(* with its durable (Redis) and in-process backends, and the bounded-retry *)
(* request executor get_response.                                          *)
(*                                                                         *)
(* Request threads are the processes of Procs.  Every read or write of     *)
(* state shared between threads (self.redis, self.conversations, a list    *)
(* object, the Redis server) is a step of its own, so the steps of two     *)
(* threads interleave the way the statements of ai_engine.py can.          *)
(*                                                                         *)
(* Python lists are objects: self.conversations.get(user_id, []) hands the *)
(* caller the very list the map holds, so lists live in `heap` and are     *)
(* referred to by object id.                                               *)
(*                                                                         *)
(* Startup (model selection, src/app.py module level) and the NLU helpers   *)
(* with the prompt builder are modelled in sections of their own, each     *)
(* with its specification (SpecStart, SpecContext).                        *)
(*                                                                         *)
(* Not modelled: the expiry (TTL) of a Redis key, the text of answers and  *)
(* of stored turns (an exchange is identified by the serial number of its  *)
(* call).                                                                  *)
(***************************************************************************)
EXTENDS Naturals, Integers, Sequences, FiniteSets

\* ------------------------------------------------------------------ bounds
\* Calls started in one behaviour of Spec.
MaxCalls == 2
\* Largest max_retries argument tried in SpecSeq (the smallest is 0).
MaxRetries == 2
\* Calls started in one behaviour of SpecOne.
MaxOneCalls == 3
\* Exchanges appended in one behaviour of SpecSeq.
MaxSeqAppends == 22
\* Requests sent to the endpoints in one behaviour of SpecApi.
MaxApiRequests == 3

\* --------------------------------------------------------------- constants
\* msgs[-20:] in _set_history, history[-20:] in get_response.
HistoryCap == 20

Users == {"u1", "u2"}
Procs == {"p1", "p2"}

\* Object ids of Python lists; NoObj is "no list".
NoObj == 0
ObjIds == 1..(Cardinality(Users) + Cardinality(Procs))

\* The kinds of failure of the LLM call inside the try block of get_response:
\* the request raises (network, rate limit, invalid model), or the response
\* has no choices[0].message.content.
FailureKinds == {"APIError", "RateLimitError", "IndexError"}

\* models_to_try of _find_working_model.
models_to_try == <<"llama3-70b-8192", "llama3-8b-8192", "mixtral-8x7b-32768">>

\* An environment variable that is not set or blank, an empty file.
NoValue == ""

\* max_retries=3, the default the endpoints of app.py call get_response with.
DefaultMaxRetries == 3

\* Requests to /api/chat answered in one behaviour of SpecStart.
MaxStartCalls == 1

\* The identifiers an operator may have put into LLM_MODEL, and a cache file
\* may hold: one outside models_to_try, and the first two of models_to_try.
Candidates == {"custom-model", models_to_try[1], models_to_try[2]}

\* One probe of _find_working_model: the model named, whether
\* chat.completions.create returned, and what became of the write of
\* working_model.txt that follows a successful probe of the fallback list
\* ("no": no write was tried).
Probe(m, ok, write) == [candidate |-> m, ok |-> ok, cached |-> write]

\* What open("working_model.txt", "w") and f.write do: succeed, or raise.
WriteOutcomes == {"ok", "OSError"}

\* self.model before _find_working_model has returned.
Unset == "unset"

VARIABLES
    \* ---- KrishiGPT object and the Redis server
    redis,          \* self.redis: "client" or "None"
    kv_ready,       \* self.kv_ready
    kv,             \* the Redis server: conv:<user> -> decoded list (<<>>: no key)
    conversations,  \* self.conversations: user -> object id, NoObj: no entry
    heap,           \* object id -> the list's items
    \* ---- one request thread each
    pc,             \* where the thread is
    op,             \* the method it was called for
    user,           \* user_id
    max_retries,    \* max_retries
    attempt,        \* the for loop's attempt
    query,          \* query (the serial number of the call)
    history,        \* history (get_response) / msgs (_set_history): object id
    msgs,           \* msgs after msgs[-20:]
    result,         \* the value returned to the caller
    \* ---- observation (history variables, read by no action's guard)
    nCalls,         \* calls started
    obs,            \* what the current call of each thread did
    lastOp,         \* the call each thread served before its current one
    fullLog,        \* per user: every turn persisted since the last clear
    nAppends,       \* per user: exchanges persisted since the last clear
    nStable,        \* per user: ... since the last clear or downgrade
    everFailed,     \* a durable-store operation has raised
    durableAfterFail, \* a durable-store operation was issued after that
    handlerRuns,    \* executions of the three "except" handlers
    \* ---- startup (src/app.py module level, KrishiGPT.__init__)
    boot,           \* where startup is
    env,            \* os.environ: GROQ_API_KEY present, LLM_MODEL (stripped)
    cache_file,     \* working_model.txt
    cache0,         \* working_model.txt when the process started
    model,          \* self.model
    krishigpt,      \* the module-level krishigpt of app.py
    fb,             \* index of model_name in models_to_try
    \* ---- observation of startup and of the endpoints
    probes,         \* the probes made, in order (see Probe)
    source,         \* the step the adopted model came from
    responses,      \* the kinds of HTTP response given so far
    \* ---- the prompt builder (NLU helpers, lines 329-337 of get_response)
    crop_data,      \* self.crop_data
    text,           \* query, as text
    stage_text,     \* stage_text of get_response
    called,         \* the method applied to text, "none" before
    crop_ret,       \* what _detect_crop returned
    qtype_ret,      \* what _detect_query_type returned
    context_ret,    \* what _get_relevant_context returned
    prompt,         \* enhanced_prompt, the content of the system message
    \* ---- the stage estimator
    meta,           \* meta of get_response
    today,          \* date.today()
    stage_ret,      \* what _get_stage_info returned, stage_info of get_response
    \* ---- the endpoints of src/app.py
    api_secret,     \* os.environ["API_SECRET"] ("" when not set)
    http,           \* the request handled last, and its response
    reset_asked     \* users who asked for a reset and sent no chat since

storeVars == <<redis, kv_ready, kv, conversations, heap>>
\* The request threads and what is observed of them.
callVars == <<pc, op, user, max_retries, attempt, query, history, msgs, result,
              nCalls, obs, lastOp, fullLog, nAppends, nStable,
              everFailed, durableAfterFail, handlerRuns>>
bootVars == <<boot, env, cache_file, cache0, model, krishigpt, fb, probes, source,
              responses>>
promptVars == <<crop_data, text, stage_text, called, crop_ret, qtype_ret,
                context_ret, prompt>>
\* The variables no step of the history store or of the retry loop changes.
stageVars == <<meta, today, stage_ret>>
apiVars == <<api_secret, http, reset_asked>>
outsideVars == <<bootVars, promptVars, stageVars, apiVars>>
vars == <<redis, kv_ready, kv, conversations, heap,
          pc, op, user, max_retries, attempt, query, history, msgs, result,
          nCalls, obs, lastOp, fullLog, nAppends, nStable,
          everFailed, durableAfterFail, handlerRuns, bootVars, promptVars,
          stageVars, apiVars>>

\* ------------------------------------------------------------------ values
Turn(role, n) == [role |-> role, content |-> n]

UserTurn(q) == Turn("user", q)

\* response.choices[0].message.content of the call with query q.
AiResponse(q) == Turn("assistant", q)

RECURSIVE PreHistory(_)
\* What k earlier exchanges (of an earlier process) left in Redis.
PreHistory(k) ==
    IF k = 0 THEN <<>>
    ELSE PreHistory(k - 1) \o <<UserTurn(k), AiResponse(k)>>

PreExchanges == HistoryCap \div 2

\* Return values.
ReturnsNone == [kind |-> "None", val |-> <<>>]

ReturnsAnswer(q) == [kind |-> "answer", val |-> <<AiResponse(q)>>]

ReturnsHistory(h) == [kind |-> "history", val |-> h]

\* The apology of get_response, with the Kisan Call Centre number.
FallbackMessage == [kind |-> "apology", val |-> <<Turn("helpline", 1551)>>]

NoObs == [llm |-> 0, ok |-> FALSE, slept |-> 0, fresh |-> FALSE,
          loaded |-> <<>>, appended |-> <<>>, sets |-> 0, written |-> <<>>,
          failedHere |-> FALSE, raced |-> FALSE, backend |-> "none",
          models |-> {}, request |-> <<>>, listed |-> <<>>,
          loads |-> 0, builds |-> 0, sent |-> {}]

\* -------------------------------------------------------------- list heap
Referenced(conv, hist) ==
    ({conv[u] : u \in Users} \cup {hist[p] : p \in Procs}) \ {NoObj}

\* A new list object.
NewObj(conv, hist) ==
    CHOOSE o \in ObjIds \ Referenced(conv, hist) :
        \A o2 \in ObjIds \ Referenced(conv, hist) : o <= o2

\* Lists nobody refers to are gone.
Collect(h, conv, hist) ==
    [o \in ObjIds |-> IF o \in Referenced(conv, hist) THEN h[o] ELSE <<>>]

\* Mutant of KeepLast: msgs[:20], the oldest 20.
KeepFirst(s) ==
    IF Len(s) <= HistoryCap THEN s ELSE SubSeq(s, 1, HistoryCap)

\* msgs[-20:]
KeepLast(s) ==
    IF Len(s) <= HistoryCap THEN s
    ELSE SubSeq(s, Len(s) - HistoryCap + 1, Len(s))

\* ------------------------------------------------------- the except handlers
\* What the Redis server answers to a request: it serves it, or the client
\* raises (connection, timeout).
Replies == {"ok", "RedisError"}

\* Mutant of GetCaught: "except redis.RedisError".
GetCaughtRedisOnly(exc) == exc = "RedisError"

\* Mutant of DeleteCaught: no try around the delete (as in the first, replaced
\* definition of _clear_history).
DeleteUncaught(exc) == FALSE

\* "except Exception" of _get_history, _set_history, _clear_history.
GetCaught(exc) == exc \in {"RedisError", "AttributeError"}

SetCaught(exc) == exc \in {"RedisError", "AttributeError"}

DeleteCaught(exc) == exc \in {"RedisError", "AttributeError"}

\* Mutant of DowngradedRedis: the handler only clears kv_ready.
KeptRedis == redis

\* Mutant of DowngradedConversations: the handler starts a new map.
ReinitConversations == [u \in Users |-> NoObj]

\* self.redis = None
DowngradedRedis == "None"

\* self.kv_ready = False
DowngradedKvReady == FALSE

\* The handlers leave self.conversations alone.
DowngradedConversations == conversations

\* Mutant of RequestModel: the request names the LLM_MODEL override when one
\* is set.
RequestModelFromEnv == IF env.LLM_MODEL # NoValue THEN env.LLM_MODEL ELSE model

\* model=self.model of the request of get_response.
RequestModel == model

\* "except Exception" of get_response.
LLMCaught(kind) == kind \in FailureKinds

\* Mutant of NextAttempt: a rate-limited attempt is not counted.
RetryUncounted(a, kind) == IF kind = "RateLimitError" THEN a ELSE a + 1

\* The for loop gives the next attempt its number.
NextAttempt(a, kind) == a + 1

\* -------------------------------------------------------------------- text
\* A Python str is the sequence of its characters.  An ASCII character is
\* written as itself, any other as its code point ("U+0930").
EmptyString == <<>>

\* str.lower() on the letters it changes.
ToLower ==
    [A |-> "a", B |-> "b", C |-> "c", D |-> "d", E |-> "e", F |-> "f", G |-> "g",
     H |-> "h", I |-> "i", J |-> "j", K |-> "k", L |-> "l", M |-> "m", N |-> "n",
     O |-> "o", P |-> "p", Q |-> "q", R |-> "r", S |-> "s", T |-> "t", U |-> "u",
     V |-> "v", W |-> "w", X |-> "x", Y |-> "y", Z |-> "z"]

\* str.lower() of one character: the letters A-Z change, and no character of
\* the scripts used here (Devanagari, Bengali, Telugu, digits, punctuation)
\* has a lower-case form.
LowerChar(c) == IF c \in DOMAIN ToLower THEN ToLower[c] ELSE c

\* s.lower()
lower(s) == [i \in 1..Len(s) |-> LowerChar(s[i])]

\* kw in q, the substring test of Python.
In(kw, q) ==
    \E i \in 1..(Len(q) + 1) :
        /\ i + Len(kw) <= Len(q) + 1
        /\ SubSeq(q, i, i + Len(kw) - 1) = kw

\* any(kw in q for kw in keywords)
AnyIn(keywords, q) == \E k \in DOMAIN keywords : In(keywords[k], q)

\* d.get(key, default) of a dict.
Get(d, key, default) == IF key \in DOMAIN d THEN d[key] ELSE default

\* ------------------------------------------------------- _detect_query_type

disease_keywords == <<
    <<"U+0930", "U+094B", "U+0917">>,
    <<"U+092C", "U+0940", "U+092E", "U+093E", "U+0930", "U+0940">>,
    <<"U+0915", "U+0940", "U+091F">>,
    <<"U+0938", "U+0941", "U+0902", "U+0921", "U+0940">>,
    <<"U+092E", "U+0915", "U+094D", "U+0916", "U+0940">>,
    <<"U+0907", "U+0932", "U+093E", "U+091C">>,
    <<"U+0909", "U+092A", "U+091A", "U+093E", "U+0930">>,
    <<"U+092A", "U+0940", "U+0932", "U+093E">>,
    <<"U+092A", "U+0940", "U+0932", "U+0947">>,
    <<"U+0938", "U+0942", "U+0916">>,
    <<"U+092E", "U+0941", "U+0930", "U+091D", "U+093E">>,
    <<"U+0927", "U+092C", "U+094D", "U+092C", "U+0947">>,
    <<"U+091B", "U+0947", "U+0926">>,
    <<"U+0938", "U+0921", "U+093C">>,
    <<"d", "i", "s", "e", "a", "s", "e">>,
    <<"p", "e", "s", "t">>,
    <<"t", "r", "e", "a", "t", "m", "e", "n", "t">>,
    <<"y", "e", "l", "l", "o", "w">>,
    <<"d", "r", "y">>,
    <<"r", "o", "t">>,
    <<"U+0905", "U+0933", "U+0940">>,
    <<"U+092E", "U+093E", "U+0936", "U+0940">>,
    <<"U+0915", "U+093F", "U+0921", "U+093E">>
>>

fertilizer_keywords == <<
    <<"U+0916", "U+093E", "U+0926">>,
    <<"U+0989", "U+0C30", "U+0C4D", "U+0C35", "U+09B0", "U+0915">>,
    <<"f", "e", "r", "t", "i", "l", "i", "z", "e", "r">>,
    <<"U+092F", "U+0942", "U+0930", "U+093F", "U+092F", "U+093E">>,
    <<"d", "a", "p">>,
    <<"n", "p", "k">>,
    <<"U+092A", "U+094B", "U+0937", "U+0915">>,
    <<"n", "u", "t", "r", "i", "e", "n", "t">>,
    <<"U+0916", "U+0924">>,
    <<"U+092E", "U+093E", "U+0924", "U+094D", "U+0930", "U+093E">>,
    <<"U+0915", "U+093F", "U+0924", "U+0928", "U+093E">>
>>

scheme_keywords == <<
    <<"U+092F", "U+094B", "U+091C", "U+0928", "U+093E">>,
    <<"s", "c", "h", "e", "m", "e">>,
    <<"U+0938", "U+0930", "U+0915", "U+093E", "U+0930", "U+0940">>,
    <<"g", "o", "v", "e", "r", "n", "m", "e", "n", "t">>,
    <<"U+0938", "U+092C", "U+094D", "U+0938", "U+093F", "U+0921", "U+0940">>,
    <<"p", "m", "-", "k", "i", "s", "a", "n">>,
    <<"U+092C", "U+0940", "U+092E", "U+093E">>,
    <<"k", "c", "c">>,
    <<"U+0915", "U+094D", "U+0930", "U+0947", "U+0921", "U+093F", "U+091F">>,
    <<"l", "o", "a", "n">>
>>

irrigation_keywords == <<
    <<"U+0938", "U+093F", "U+0902", "U+091A", "U+093E", "U+0908">>,
    <<"U+092A", "U+093E", "U+0928", "U+0940">>,
    <<"w", "a", "t", "e", "r">>,
    <<"i", "r", "r", "i", "g", "a", "t", "i", "o", "n">>,
    <<"U+0921", "U+094D", "U+0930", "U+093F", "U+092A">>,
    <<"d", "r", "i", "p">>,
    <<"U+0938", "U+094D", "U+092A", "U+094D", "U+0930", "U+093F", "U+0902", "U+0915", "U+0932", "U+0930">>
>>

\* Mutant of detect_query_type: the fertilizer group is tested first.
detect_query_type_fertilizer_first(qry) ==
    LET q == lower(qry)
    IN  IF AnyIn(fertilizer_keywords, q) THEN "fertilizer"
        ELSE IF AnyIn(disease_keywords, q) THEN "disease"
        ELSE IF AnyIn(scheme_keywords, q) THEN "scheme"
        ELSE IF AnyIn(irrigation_keywords, q) THEN "irrigation"
        ELSE "general"

\* _detect_query_type(query): the four tests in the order of the code, the
\* first that holds returns.
detect_query_type(qry) ==
    LET q == lower(qry)
    IN  IF AnyIn(disease_keywords, q) THEN "disease"
        ELSE IF AnyIn(fertilizer_keywords, q) THEN "fertilizer"
        ELSE IF AnyIn(scheme_keywords, q) THEN "scheme"
        ELSE IF AnyIn(irrigation_keywords, q) THEN "irrigation"
        ELSE "general"

\* ------------------------------------------------------------ _detect_crop
\* self.crop_data["crops"] is a dict: crops is the sequence of its items
\* <<crop_key, crop_info>> in iteration (insertion) order.
\* (None, None), the pair returned when no crop matches.
NoCrop == <<>>

\* Mutant of KeywordHit: the keyword is not lower-cased.
KeywordHitAsWritten(kw, q) == In(kw, q)

\* kw.lower() in q
KeywordHit(kw, q) == In(lower(kw), q)

\* The inner loop of _detect_crop over crop_info.get("keywords", []).
CropHit(crop_info, q) ==
    \E k \in DOMAIN Get(crop_info, "keywords", <<>>) :
        KeywordHit(Get(crop_info, "keywords", <<>>)[k], q)

\* The outer loop of _detect_crop from item i on.
RECURSIVE ScanCrops(_, _, _)
ScanCrops(crops, i, q) ==
    IF i > Len(crops) THEN NoCrop
    ELSE IF CropHit(crops[i][2], q) THEN crops[i]
    ELSE ScanCrops(crops, i + 1, q)

\* _detect_crop(query)
detect_crop(data, qry) == ScanCrops(Get(data, "crops", <<>>), 1, lower(qry))

\* --------------------------------------------------- _get_relevant_context
\* The text built here is kept as the sequence of its pieces: a piece is a
\* literal of a format string (written in ASCII, the emoji and Hindi words
\* transliterated) or the value of a field of the knowledge base.
NL == "\n"

RECURSIVE ConcatAll(_)
ConcatAll(ss) == IF ss = <<>> THEN <<>> ELSE ss[1] \o ConcatAll(Tail(ss))

\* "\n".join(parts)
RECURSIVE Join(_)
Join(parts) ==
    IF parts = <<>> THEN EmptyString
    ELSE IF Len(parts) = 1 THEN parts[1]
    ELSE parts[1] \o <<NL>> \o Join(Tail(parts))

\* The three parts appended for every detected crop.
CropParts(crop_key, crop_info) ==
    << <<NL, "[pin] fasal (", Get(crop_info, "name_hi", crop_key), "):">>,
       <<"   - mausam: ", Get(crop_info, "season", "N/A")>>,
       <<"   - pani: ", Get(crop_info, "water_requirement", "N/A")>> >>

\* Mutant of DiseaseSlice: no slice.
DiseaseAll(diseases) == diseases

\* common_diseases[:3]
DiseaseSlice(diseases) ==
    SubSeq(diseases, 1, IF Len(diseases) < 3 THEN Len(diseases) ELSE 3)

\* The parts of one disease.
DiseaseParts(disease) ==
    << <<NL, "   ", Get(disease, "name", ""), ":">>,
       <<"   lakshan: ", Get(disease, "symptoms", "N/A")>>,
       <<"   karan: ", Get(disease, "causes", "N/A")>>,
       <<"   upchar:">> >>
    \o [t \in DOMAIN Get(disease, "treatment", <<>>) |->
            <<"      * ", Get(disease, "treatment", <<>>)[t]>>]
    \o (IF "cost_per_acre" \in DOMAIN disease
        THEN << <<"   kharch: Rs", disease["cost_per_acre"], "/acre">> >>
        ELSE <<>>)

\* The disease section: header, then the parts of the first three diseases.
DiseaseSection(crop_info) ==
    << <<NL, "[microscope] aam bimariyan:">> >>
    \o ConcatAll([d \in DOMAIN DiseaseSlice(Get(crop_info, "common_diseases", <<>>)) |->
            DiseaseParts(DiseaseSlice(Get(crop_info, "common_diseases", <<>>))[d])])

\* The parts of one entry of fertilizer_schedule.
ScheduleParts(schedule) ==
    << <<"   * ", Get(schedule, "stage", ""), ": ", Get(schedule, "fertilizer", "")>> >>
    \o (IF Get(schedule, "cost", "") # ""
        THEN << <<"     kharch: Rs", schedule["cost"]>> >>
        ELSE <<>>)

FertilizerSection(crop_info) ==
    << <<NL, "[herb] khad anusuchi:">> >>
    \o ConcatAll([f \in DOMAIN Get(crop_info, "fertilizer_schedule", <<>>) |->
            ScheduleParts(Get(crop_info, "fertilizer_schedule", <<>>)[f])])

\* The parts of one scheme.
SchemeParts(scheme) ==
    << <<NL, "   ", Get(scheme, "name", ""), ":">>,
       <<"   labh: ", Get(scheme, "benefit", "N/A")>>,
       <<"   patrata: ", Get(scheme, "eligibility", "N/A")>>,
       <<"   avedan: ", Get(scheme, "apply", "N/A")>> >>
    \o (IF Get(scheme, "helpline", "") # ""
        THEN << <<"   helpline: ", scheme["helpline"]>> >>
        ELSE <<>>)

\* Mutant of EmitSchemes: schemes only when no crop was detected.
EmitSchemesWithoutCrop(hit, qtype) == qtype = "scheme" /\ hit = NoCrop

\* if qtype == "scheme", tested outside the "if crop_info" block.
EmitSchemes(hit, qtype) == qtype = "scheme"

SchemeSection(data) ==
    << <<NL, "[clipboard] sarkari yojanaen:">> >>
    \o ConcatAll([s \in DOMAIN Get(data, "government_schemes", <<>>) |->
            SchemeParts(Get(data, "government_schemes", <<>>)[s])])

\* if crop_info: a pair was returned and its dict is not empty.
Truthy(hit) == hit # NoCrop /\ DOMAIN hit[2] # {}

\* Mutant of EmitFertilizer: the schedule is left out for the type general.
EmitFertilizerOnly(qtype) == qtype = "fertilizer"

\* if qtype in ["fertilizer","general"]
EmitFertilizer(qtype) == qtype \in {"fertilizer", "general"}

\* parts of _get_relevant_context(query)
ContextParts(data, qry) ==
    LET hit == detect_crop(data, qry)
        qtype == detect_query_type(qry)
    IN  (IF Truthy(hit)
         THEN CropParts(hit[1], hit[2])
              \o (IF qtype = "disease" THEN DiseaseSection(hit[2]) ELSE <<>>)
              \o (IF EmitFertilizer(qtype)
                  THEN FertilizerSection(hit[2]) ELSE <<>>)
         ELSE <<>>)
        \o (IF EmitSchemes(hit, qtype) THEN SchemeSection(data) ELSE <<>>)

\* _get_relevant_context(query): "\n".join(parts) if parts else ""
get_relevant_context(data, qry) ==
    IF ContextParts(data, qry) # <<>> THEN Join(ContextParts(data, qry))
    ELSE EmptyString

\* ------------------------------------------- get_response, lines 329 to 337
\* self.system_prompt
system_prompt == <<"[system prompt]">>

\* The header put before crop_context and the instruction put after it.
KnowledgeHeader == <<NL, NL, "--- [books] sambandhit jankari (Knowledge Base se) ---", NL>>

InstructionSuffix == <<NL, NL, "--- [warning] nirdesh ---", NL, "[use the information above]">>

\* Mutant of KnowledgeSection: the section is appended whatever the context.
KnowledgeSectionAlways(crop_context) ==
    KnowledgeHeader \o crop_context \o InstructionSuffix

\* if crop_context: the two += of lines 336 and 337.
KnowledgeSection(crop_context) ==
    IF crop_context # EmptyString
    THEN KnowledgeHeader \o crop_context \o InstructionSuffix
    ELSE EmptyString

\* Mutant of EnhancedPrompt: the stage note is put before the system prompt.
EnhancedPromptStageFirst(stage, crop_context) ==
    stage \o system_prompt \o KnowledgeSection(crop_context)

\* enhanced_prompt
EnhancedPrompt(stage, crop_context) ==
    system_prompt \o stage \o KnowledgeSection(crop_context)

\* ------------------------------------------------------------ Python values
\* The values a field of the JSON body of a request can have, as far as the
\* code tells them apart: a str (its characters), an int, None.
Str(chars) == [type |-> "str", value |-> chars]

PyInt(n) == [type |-> "int", value |-> n]

None == [type |-> "NoneType"]

\* bool(v): "if v", "not v", "a or b".
Bool(v) ==
    CASE v.type = "str" -> v.value # EmptyString
      [] v.type = "int" -> v.value # 0
      [] v.type = "NoneType" -> FALSE

\* a or b
Or(a, b) == IF Bool(a) THEN a ELSE b

\* ------------------------------------------------------------------- dates
\* A date is [year, month, day].
Date(y, m, d) == [year |-> y, month |-> m, day |-> d]

\* calendar.isleap
IsLeap(y) == y % 4 = 0 /\ (y % 100 # 0 \/ y % 400 = 0)

\* Days of the months of a common year.
DaysInMonthCommon == <<31, 28, 31, 30, 31, 30, 31, 31, 30, 31, 30, 31>>

DaysInMonth(y, m) ==
    IF m = 2 /\ IsLeap(y) THEN 29 ELSE DaysInMonthCommon[m]

\* Days of year y before the first of month m.
RECURSIVE DaysBeforeMonth(_, _)
DaysBeforeMonth(y, m) ==
    IF m = 1 THEN 0 ELSE DaysBeforeMonth(y, m - 1) + DaysInMonth(y, m - 1)

\* date.toordinal(): the number of the day, 1 being 0001-01-01.
Ordinal(dt) ==
    LET y == dt.year - 1
    IN  y * 365 + (y \div 4) - (y \div 100) + (y \div 400)
        + DaysBeforeMonth(dt.year, dt.month) + dt.day

\* (today - sow_date).days
DaysBetween(sow_date, today_) == Ordinal(today_) - Ordinal(sow_date)

\* ------------------------------------------------------------ parse_date_str
Digits == <<"0", "1", "2", "3", "4", "5", "6", "7", "8", "9">>

IsDigit(c) == \E i \in DOMAIN Digits : Digits[i] = c

DigitValue(c) == (CHOOSE i \in DOMAIN Digits : Digits[i] = c) - 1

\* int() of a string of digits.
RECURSIVE Number(_)
Number(s) ==
    IF s = <<>> THEN 0
    ELSE 10 * Number(SubSeq(s, 1, Len(s) - 1)) + DigitValue(s[Len(s)])

AllDigits(s) == \A i \in DOMAIN s : IsDigit(s[i])

\* The white space str.strip() removes.
WhiteSpace == {" ", "\t", "\n"}

\* s.strip()
RECURSIVE strip(_)
strip(s) ==
    IF s = <<>> THEN s
    ELSE IF s[1] \in WhiteSpace THEN strip(Tail(s))
    ELSE IF s[Len(s)] \in WhiteSpace THEN strip(SubSeq(s, 1, Len(s) - 1))
    ELSE s

\* The fields of s between the separators sep.
RECURSIVE Fields(_, _)
Fields(s, sep) ==
    IF \E i \in DOMAIN s : s[i] = sep
    THEN LET i == CHOOSE i \in DOMAIN s :
                      s[i] = sep /\ \A j \in 1..(i - 1) : s[j] # sep
         IN  <<SubSeq(s, 1, i - 1)>> \o Fields(SubSeq(s, i + 1, Len(s)), sep)
    ELSE <<s>>

\* The three formats tried, in this order: the separator and the directive
\* of each field.
DateFormats ==
    << [sep |-> "-", fields |-> <<"%Y", "%m", "%d">>],
       [sep |-> "-", fields |-> <<"%d", "%m", "%Y">>],
       [sep |-> "/", fields |-> <<"%d", "%m", "%Y">>] >>

\* A field matches a directive of strptime: %Y is four digits, %m one or two
\* digits from 1 to 12, %d one or two digits from 1 to 31.
FieldMatches(field, directive) ==
    /\ field # <<>>
    /\ AllDigits(field)
    /\ CASE directive = "%Y" -> Len(field) = 4
         [] directive = "%m" -> Len(field) <= 2 /\ Number(field) \in 1..12
         [] directive = "%d" -> Len(field) <= 2 /\ Number(field) \in 1..31

\* The field of directive in the fields of s under format fmt.
FieldOf(s, fmt, directive) ==
    Fields(s, fmt.sep)[CHOOSE i \in 1..3 : fmt.fields[i] = directive]

\* datetime.strptime(s, fmt) does not raise ValueError: the string matches
\* the format and names a day that exists (year 1 to 9999).
Strptime(s, fmt) ==
    /\ Len(Fields(s, fmt.sep)) = 3
    /\ \A i \in 1..3 : FieldMatches(Fields(s, fmt.sep)[i], fmt.fields[i])
    /\ Number(FieldOf(s, fmt, "%Y")) >= 1
    /\ Number(FieldOf(s, fmt, "%d")) <=
           DaysInMonth(Number(FieldOf(s, fmt, "%Y")), Number(FieldOf(s, fmt, "%m")))

\* datetime.strptime(s, fmt).date()
StrptimeDate(s, fmt) ==
    Date(Number(FieldOf(s, fmt, "%Y")), Number(FieldOf(s, fmt, "%m")),
         Number(FieldOf(s, fmt, "%d")))

\* A value no date was parsed from.
NoDate == <<>>

\* What a call gives that ends in an exception the callee does not catch.
Raises(exc) == [raises |-> exc]

\* The loop of parse_date_str over the formats from format f on.
RECURSIVE TryFormats(_, _)
TryFormats(s, f) ==
    IF f > Len(DateFormats) THEN NoDate
    ELSE IF Strptime(s, DateFormats[f]) THEN StrptimeDate(s, DateFormats[f])
    ELSE TryFormats(s, f + 1)

\* parse_date_str(date_str): None for a falsy value; date_str.strip() raises
\* AttributeError on a value that is not a str.
parse_date_str(date_str) ==
    IF ~Bool(date_str) THEN NoDate
    ELSE IF date_str.type # "str" THEN Raises("AttributeError")
    ELSE TryFormats(strip(date_str.value), 1)

\* ---------------------------------------------------------- _get_stage_info
\* The characters of the crop keys of STAGE_RULES and of the knowledge bases.
Spell ==
    [cotton |-> <<"c", "o", "t", "t", "o", "n">>,
     tomato |-> <<"t", "o", "m", "a", "t", "o">>,
     onion |-> <<"o", "n", "i", "o", "n">>,
     soybean |-> <<"s", "o", "y", "b", "e", "a", "n">>,
     pea |-> <<"p", "e", "a">>,
     peanut |-> <<"p", "e", "a", "n", "u", "t">>]

\* STAGE_RULES: per crop the buckets <<start, end, label>> (the Marathi labels
\* transliterated).
STAGE_RULES ==
    [cotton |-> << <<0, 20, "ankuran / ugavan">>,
                   <<21, 45, "vadhichi avastha">>,
                   <<46, 80, "phulora / chaukat">>,
                   <<81, 130, "boll vikas">>,
                   <<131, 999, "kapani javal">> >>,
     tomato |-> << <<0, 20, "ropanchi vadh / ropvatika">>,
                   <<21, 40, "ropanchi vadh / phutave">>,
                   <<41, 70, "phulora">>,
                   <<71, 110, "phal vikas">>,
                   <<111, 999, "kapani javal">> >>,
     onion |-> << <<0, 25, "ankuran / rop vadh">>,
                  <<26, 50, "vadhichi avastha">>,
                  <<51, 80, "kand vikas">>,
                  <<81, 999, "kapani javal">> >>,
     soybean |-> << <<0, 15, "ankuran / ugavan">>,
                    <<16, 35, "shakiya vadh">>,
                    <<36, 65, "phulora / phaldharana">>,
                    <<66, 999, "shenga bharane / kapani javal">> >>]

\* stage_label before the loop: "avastha (andaje)", stage (approximate).
DefaultLabel == "avastha (andaje)"

\* None, returned by _get_stage_info and by STAGE_RULES.get.
NoStage == <<>>

\* STAGE_RULES.get(crop_key), crop_key given by its characters.
RulesGet(crop_key) ==
    IF \E k \in DOMAIN STAGE_RULES : Spell[k] = crop_key
    THEN STAGE_RULES[CHOOSE k \in DOMAIN STAGE_RULES : Spell[k] = crop_key]
    ELSE NoStage

\* Mutant of InBucket: the upper limit of a bucket is left out.
InBucketOpen(das, rule) == rule[1] <= das /\ das < rule[2]

\* start <= das <= end
InBucket(das, rule) == rule[1] <= das /\ das <= rule[2]

\* The loop over rules from rule r on: the label of the first bucket that
\* holds das, else the label set before the loop.
RECURSIVE StageLabel(_, _, _)
StageLabel(rules, r, das) ==
    IF r > Len(rules) THEN DefaultLabel
    ELSE IF InBucket(das, rules[r]) THEN rules[r][3]
    ELSE StageLabel(rules, r + 1, das)

\* The call ended in an exception.
Raised(v) == v # <<>> /\ "raises" \in DOMAIN v

\* _get_stage_info(crop_key, sowing_date_str) on the day today_.
\* str(crop_key) is the key itself for the str values given here.
get_stage_info(crop_key, sowing_date_str, today_) ==
    IF ~Bool(crop_key) \/ ~Bool(sowing_date_str) THEN NoStage
    ELSE IF RulesGet(lower(crop_key.value)) = NoStage THEN NoStage
    ELSE LET sow_date == parse_date_str(sowing_date_str)
         IN  IF Raised(sow_date) THEN sow_date
             ELSE IF sow_date = NoDate THEN NoStage
             ELSE IF DaysBetween(sow_date, today_) < 0 THEN NoStage
             ELSE [crop |-> lower(crop_key.value),
                   das |-> DaysBetween(sow_date, today_),
                   label |-> StageLabel(RulesGet(lower(crop_key.value)), 1,
                                        DaysBetween(sow_date, today_))]

\* ------------------------------------------- get_response, lines 310 to 327
\* meta is None or a dict with the keys crop and sowing_date (the dict
\* /api/chat builds); meta.get("crop_key") is None for it.
NoMeta == <<>>

\* stage_info of get_response: from the crop of meta, and, when that gave
\* nothing and there is a sowing date, from the crop detected in the query.
StageInfo(meta_, data, qry, today_) ==
    IF meta_ = NoMeta THEN NoStage
    ELSE LET crop_key == Or(None, meta_.crop)
             first == get_stage_info(crop_key, meta_.sowing_date, today_)
             detected == detect_crop(data, qry)
         IN  IF first = NoStage /\ Bool(meta_.sowing_date) /\ detected # NoCrop
             THEN get_stage_info(Str(Spell[detected[1]]), meta_.sowing_date, today_)
             ELSE first

\* The text of a number, as the f-string writes it.
RECURSIVE Decimal(_)
Decimal(n) ==
    IF n < 10 THEN <<Digits[n + 1]>>
    ELSE Decimal(n \div 10) \o <<Digits[(n % 10) + 1]>>

\* stage_text for a stage_info that is not None (lines 322-326).
StageNote(stage_info) ==
    <<NL, NL, "--- [seedling] fasal ki avastha ---", NL, "sadhya andaje ">>
    \o Decimal(stage_info.das)
    \o <<" divas zale ahet (DAS). avastha: ", stage_info.label, ".">>

\* stage_text of get_response.
StageText(stage_info) ==
    IF stage_info = NoStage THEN EmptyString ELSE StageNote(stage_info)

\* ------------------------------------------------ stage estimator, inputs
\* The day of scenario C of the specification, 45 days after 2025-10-01.
ScenarioToday == Date(2025, 11, 15)

\* The values of date.today(): 2025-10-01 and the days
\* -1, 0, 15, 16, 20, 21, 25, 26, 35, 36, 40, 41, 45, 46, 50, 51, 65, 66, 70,
\* 71, 80, 81, 110, 111, 130, 131, 999 and 1000 days after it (the limits of
\* the buckets of STAGE_RULES, on both sides).
Todays ==
    { Date(2025, 9, 30), Date(2025, 10, 1), Date(2025, 10, 16),
      Date(2025, 10, 17), Date(2025, 10, 21), Date(2025, 10, 22),
      Date(2025, 10, 26), Date(2025, 10, 27), Date(2025, 11, 5),
      Date(2025, 11, 6), Date(2025, 11, 10), Date(2025, 11, 11),
      Date(2025, 11, 15), Date(2025, 11, 16), Date(2025, 11, 20),
      Date(2025, 11, 21), Date(2025, 12, 5), Date(2025, 12, 6),
      Date(2025, 12, 10), Date(2025, 12, 11), Date(2025, 12, 20),
      Date(2025, 12, 21), Date(2026, 1, 19), Date(2026, 1, 20),
      Date(2026, 2, 8), Date(2026, 2, 9), Date(2028, 6, 26),
      Date(2028, 6, 27) }

\* The values of sowing_date in the body of a request: absent, a number, and
\* strings: 2025-10-01 in the three formats, with white space around and
\* with a day of one digit, a leap day, a day after every day of Todays,
\* and strings of no format or naming no day.
SowingDates ==
    { None,
      PyInt(20251001),
      Str(<<"2", "0", "2", "5", "-", "1", "0", "-", "0", "1">>),
      Str(<<"0", "1", "-", "1", "0", "-", "2", "0", "2", "5">>),
      Str(<<"0", "1", "/", "1", "0", "/", "2", "0", "2", "5">>),
      Str(<<" ", "0", "1", "-", "1", "0", "-", "2", "0", "2", "5", " ">>),
      Str(<<"1", "-", "1", "0", "-", "2", "0", "2", "5">>),
      Str(<<"2", "9", "-", "0", "2", "-", "2", "0", "2", "4">>),
      Str(<<"2", "0", "2", "9", "-", "0", "1", "-", "0", "1">>),
      Str(<<"3", "1", "-", "0", "2", "-", "2", "0", "2", "5">>),
      Str(<<"2", "0", "2", "5", "-", "1", "3", "-", "0", "1">>),
      Str(<<"0", "1", ".", "1", "0", ".", "2", "0", "2", "5">>),
      Str(<<"0", "1", "-", "1", "0", "-", "2", "5">>),
      Str(<<"k", "a", "l">>),
      Str(<<>>) }

\* The values of crop in the body of a request: absent, the four crops of
\* STAGE_RULES, one of them with a capital letter, and a crop without rules.
StageCrops ==
    { None,
      Str(Spell.cotton),
      Str(<<"C", "o", "t", "t", "o", "n">>),
      Str(Spell.tomato),
      Str(Spell.onion),
      Str(Spell.soybean),
      Str(<<"w", "h", "e", "a", "t">>) }

\* meta as /api/chat builds it: None when neither crop nor sowing_date is
\* given, else the dict of both.
MetaOf(crop, sowing_date) ==
    IF Bool(crop) \/ Bool(sowing_date)
    THEN [crop |-> crop, sowing_date |-> sowing_date]
    ELSE NoMeta

Metas == {MetaOf(c, d) : c \in StageCrops, d \in SowingDates}

\* The meta of scenario C: cotton, sown on "01-10-2025".
ScenarioMeta ==
    [crop |-> Str(Spell.cotton),
     sowing_date |-> Str(<<"0", "1", "-", "1", "0", "-", "2", "0", "2", "5">>)]

\* The metas the prompt builder is given in SpecContext.
PromptMetas == {NoMeta, ScenarioMeta}

\* The queries of SpecStage: one that names no crop, one that names tomato,
\* one that names peanut, which has no rules.
StageTexts ==
    { <<"h", "e", "l", "l", "o">>,
      <<"T", "O", "M", "A", "T", "O">>,
      <<"p", "e", "a", "n", "u", "t">> }

\* ------------------------------------------------- knowledge bases, queries
\* What _load_crop_data returns when prompts/crop_data.json does not exist
\* (emergency_contacts, which no method modelled here reads, is left out).
DefaultData == [crops |-> <<>>, government_schemes |-> <<>>]

Disease(name, treatment) ==
    [name |-> name, symptoms |-> "symptoms of " \o name,
     causes |-> "causes of " \o name, treatment |-> treatment]

\* A crop with four diseases, the first with a cost, and a schedule of two
\* entries, the first with a cost.
Tomato ==
    <<"tomato",
      [keywords |-> << <<"U+091F", "U+092E", "U+093E", "U+091F", "U+0930">>,
                       <<"T", "o", "m", "a", "t", "o">> >>,
       name_hi |-> "tamatar", season |-> "Kharif, Rabi",
       water_requirement |-> "600-800 mm",
       common_diseases |->
           <<[name |-> "Early blight", symptoms |-> "symptoms of Early blight",
              causes |-> "causes of Early blight",
              treatment |-> <<"Mancozeb", "remove leaves">>,
              cost_per_acre |-> "800"],
             Disease("Late blight", <<"Metalaxyl">>),
             Disease("Leaf curl", <<>>),
             Disease("Fusarium wilt", <<"Trichoderma">>)>>,
       fertilizer_schedule |->
           <<[stage |-> "basal", fertilizer |-> "DAP 50 kg", cost |-> "1350"],
             [stage |-> "30 DAS", fertilizer |-> "Urea 25 kg"]>>]>>

\* A crop whose only keyword is part of a keyword of the next crop; it has no
\* name_hi, no water_requirement and no fertilizer_schedule.
Pea ==
    <<"pea",
      [keywords |-> << <<"p", "e", "a">> >>, season |-> "Rabi",
       common_diseases |-> <<Disease("Powdery mildew", <<"Sulphur">>)>>]>>

\* A crop without common_diseases.
Peanut ==
    <<"peanut",
      [keywords |-> << <<"p", "e", "a", "n", "u", "t">>,
                       <<"G", "r", "o", "u", "n", "d", "n", "u", "t">> >>,
       name_hi |-> "moongfali", season |-> "Kharif",
       water_requirement |-> "500-700 mm",
       fertilizer_schedule |-> <<[stage |-> "sowing", fertilizer |-> "SSP 100 kg"]>>]>>

PMKisan ==
    [name |-> "PM-KISAN", benefit |-> "6000 per year",
     eligibility |-> "land-holding farmers", apply |-> "pmkisan.gov.in",
     helpline |-> "155261"]

\* A scheme with a name and a benefit only.
KCC == [name |-> "Kisan Credit Card", benefit |-> "credit at 4 percent"]

\* The contents prompts/crop_data.json may have.
KnowledgeBases ==
    { DefaultData,
      [crops |-> <<Tomato, Pea, Peanut>>, government_schemes |-> <<PMKisan, KCC>>],
      [crops |-> <<Peanut, Pea, Tomato>>, government_schemes |-> <<KCC, PMKisan>>] }

\* The query "PM-KISAN yojana ki jankari do" (written in Devanagari but for
\* PM-KISAN).
SchemeQuery ==
    <<"P", "M", "-", "K", "I", "S", "A", "N", " ", "U+092F", "U+094B",
      "U+091C", "U+0928", "U+093E", " ", "U+0915", "U+0940", " ", "U+091C",
      "U+093E", "U+0928", "U+0915", "U+093E", "U+0930", "U+0940", " ",
      "U+0926", "U+094B">>

\* The query "tamatar ki pattiyan pili ho rahi hain" (tomato leaves are
\* turning yellow), in Devanagari.
YellowLeavesQuery ==
    <<"U+091F", "U+092E", "U+093E", "U+091F", "U+0930", " ", "U+0915",
      "U+0940", " ", "U+092A", "U+0924", "U+094D", "U+0924", "U+093F",
      "U+092F", "U+093E", "U+0902", " ", "U+092A", "U+0940", "U+0932",
      "U+0940", " ", "U+0939", "U+094B", " ", "U+0930", "U+0939", "U+0940",
      " ", "U+0939", "U+0948", "U+0902">>

\* The pieces queries are made of: names of crops in the case of the knowledge
\* base and in another, a keyword of each group of _detect_query_type, words
\* that hold a keyword inside, a word that holds none, SchemeQuery and
\* YellowLeavesQuery.
Pieces ==
    { <<"U+091F", "U+092E", "U+093E", "U+091F", "U+0930">>,
      <<"T", "O", "M", "A", "T", "O">>,
      <<"p", "e", "a", "n", "u", "t">>,
      <<"c", "a", "r", "r", "o", "t">>,
      <<"U+0930", "U+094B", "U+0917">>,
      <<"D", "A", "P">>,
      <<"U+092F", "U+094B", "U+091C", "U+0928", "U+093E">>,
      <<"w", "a", "t", "e", "r">>,
      <<"h", "e", "l", "l", "o">>,
      SchemeQuery,
      YellowLeavesQuery }

\* Pieces a query is made of at most.
MaxPieces == 2

\* The queries of at most n pieces.
RECURSIVE Texts(_)
Texts(n) ==
    IF n = 0 THEN {EmptyString}
    ELSE Texts(n - 1) \cup {t \o p : t \in Texts(n - 1), p \in Pieces}

\* No query has been given to the prompt builder.
PromptIdle ==
    /\ crop_data = DefaultData
    /\ text = EmptyString
    /\ stage_text = EmptyString
    /\ called = "none"
    /\ crop_ret = NoCrop
    /\ qtype_ret = "none"
    /\ context_ret = EmptyString
    /\ prompt = EmptyString
    /\ meta = NoMeta
    /\ today = ScenarioToday
    /\ stage_ret = NoStage

\* -------------------------------------------------------------------- Init
\* The engine after __init__: the Redis handle, the empty in-memory map, and
\* the request threads not yet started.
StoreInit ==
    /\ redis \in {"client", "None"}
    /\ kv_ready = (redis = "client")
    /\ kv \in [Users -> {<<>>, PreHistory(PreExchanges)}]
    /\ (redis = "None") => (\A u \in Users : kv[u] = <<>>)
    /\ conversations = [u \in Users |-> NoObj]
    /\ heap = [o \in ObjIds |-> <<>>]
    /\ pc = [p \in Procs |-> "idle"]
    /\ op = [p \in Procs |-> "none"]
    /\ user = [p \in Procs |-> "u1"]
    /\ max_retries = [p \in Procs |-> 0]
    /\ attempt = [p \in Procs |-> 0]
    /\ query = [p \in Procs |-> 0]
    /\ history = [p \in Procs |-> NoObj]
    /\ msgs = [p \in Procs |-> <<>>]
    /\ result = [p \in Procs |-> ReturnsNone]
    /\ nCalls = 0
    /\ obs = [p \in Procs |-> NoObs]
    /\ lastOp = [p \in Procs |-> <<"none", "u1">>]
    /\ fullLog = kv
    /\ nAppends = [u \in Users |-> 0]
    /\ nStable = [u \in Users |-> 0]
    /\ everFailed = FALSE
    /\ durableAfterFail = FALSE
    /\ handlerRuns = 0

\* A startup that went well: no override, no cache file, the first model of
\* the fallback list answered its probe and was cached.
Started ==
    /\ boot = "serving"
    /\ env = [GROQ_API_KEY |-> TRUE, LLM_MODEL |-> NoValue]
    /\ cache_file = models_to_try[1]
    /\ cache0 = "absent"
    /\ model = models_to_try[1]
    /\ krishigpt = "KrishiGPT"
    /\ fb = 1
    /\ probes = <<Probe(models_to_try[1], TRUE, "ok")>>
    /\ source = "fallback"
    /\ responses = {}

\* No request has been handled; API_SECRET is not set.
NoRequest ==
    [endpoint |-> "none", user_id |-> "", key |-> <<>>, status |-> "none",
     after_reset |-> FALSE]

ApiIdle ==
    /\ api_secret = EmptyString
    /\ http = NoRequest
    /\ reset_asked = {}

Init == StoreInit /\ Started /\ PromptIdle /\ ApiIdle

\* ----------------------------------------------------------------- helpers
\* The method returns res to its caller; its local list reference dies.
Finish(p, res) ==
    /\ pc' = [pc EXCEPT ![p] = "done"]
    /\ result' = [result EXCEPT ![p] = res]
    /\ history' = [history EXCEPT ![p] = NoObj]
    /\ msgs' = [msgs EXCEPT ![p] = <<>>]

\* An exception leaves the method.
Raise(p) ==
    /\ pc' = [pc EXCEPT ![p] = "raised"]
    /\ result' = [result EXCEPT ![p] = ReturnsNone]
    /\ history' = [history EXCEPT ![p] = NoObj]
    /\ msgs' = [msgs EXCEPT ![p] = <<>>]

\* The body of an except handler of the store helpers, entered by thread p
\* at the durable call; it falls through to the in-memory statement at `next`.
Handler(p, exc, next) ==
    /\ redis' = DowngradedRedis
    /\ kv_ready' = DowngradedKvReady
    /\ conversations' = DowngradedConversations
    /\ heap' = Collect(heap, conversations', history)
    /\ pc' = [pc EXCEPT ![p] = next]
    /\ everFailed' = (everFailed \/ exc = "RedisError")
    /\ handlerRuns' = handlerRuns + 1
    /\ nStable' = [u \in Users |-> 0]
    /\ obs' = [obs EXCEPT ![p] = [@ EXCEPT !.failedHere = TRUE,
                                           !.raced = (exc = "AttributeError")]]
    /\ UNCHANGED <<kv, history, msgs, result, fullLog, nAppends>>

\* self.redis.<method>(...) is evaluated by thread p with the handle still
\* there: the request goes out and the thread waits for the reply at `wait`.
\* (The reply may come after another thread's failure has set the handle to
\* None: such a call was under way before the downgrade.)
Issue(p, wait) ==
    /\ pc' = [pc EXCEPT ![p] = wait]
    /\ durableAfterFail' = (durableAfterFail \/ everFailed)
    /\ UNCHANGED <<storeVars, op, user, max_retries, attempt, query, history,
                   msgs, result, obs, lastOp, fullLog, nAppends, nStable,
                   everFailed, handlerRuns>>

\* self.redis.<method> is evaluated after another thread set self.redis to
\* None: None has no such method, AttributeError is raised inside the try.
NoHandle(p, caught, next) ==
    /\ IF caught
       THEN Handler(p, "AttributeError", next)
       ELSE /\ Raise(p)
            /\ UNCHANGED <<storeVars, obs, fullLog, nAppends, nStable,
                           everFailed, handlerRuns>>
    /\ UNCHANGED <<op, user, max_retries, attempt, query, lastOp,
                   durableAfterFail>>

\* The exchange of thread p is persisted.
Logged(p) ==
    /\ fullLog' = [fullLog EXCEPT ![user[p]] =
                       @ \o <<UserTurn(query[p]), AiResponse(query[p])>>]
    /\ nAppends' = [nAppends EXCEPT ![user[p]] = @ + 1]
    /\ nStable' = [nStable EXCEPT ![user[p]] = @ + 1]

\* The history of user u is cleared.
Unlogged(u) ==
    /\ fullLog' = [fullLog EXCEPT ![u] = <<>>]
    /\ nAppends' = [nAppends EXCEPT ![u] = 0]
    /\ nStable' = [nStable EXCEPT ![u] = 0]

\* Mutant of IfRedis: the helpers go to the in-memory map whatever the handle.
IfRedisSkipped(durable, memory) == memory

\* "if self.redis:" of the three store helpers.
IfRedis(durable, memory) == IF redis = "client" THEN durable ELSE memory

\* ------------------------------------------------------------ the callers
\* Thread p is not inside a call: it never served one, or its last call has
\* returned or raised (result and obs keep what that call did until the thread
\* is given the next one).
Free(p) == pc[p] \in {"idle", "done", "raised"}

\* The call thread p served before the one it is given now, when that was a
\* _clear_history.
Previous(p) ==
    [lastOp EXCEPT ![p] = IF op[p] = "clear_history"
                          THEN <<op[p], user[p]>> ELSE <<"none", "u1">>]

\* get_response(user_id, query, max_retries) is called; it calls _get_history,
\* which tests self.redis.
Call_get_response(p, u, q, mr) ==
    /\ Free(p)
    /\ pc' = [pc EXCEPT ![p] = IfRedis("gh_call", "gh_mem")]
    /\ op' = [op EXCEPT ![p] = "get_response"]
    /\ user' = [user EXCEPT ![p] = u]
    /\ query' = [query EXCEPT ![p] = q]
    /\ max_retries' = [max_retries EXCEPT ![p] = mr]
    /\ attempt' = [attempt EXCEPT ![p] = 0]
    /\ result' = [result EXCEPT ![p] = ReturnsNone]
    /\ obs' = [obs EXCEPT ![p] = NoObs]
    /\ lastOp' = Previous(p)
    /\ UNCHANGED <<storeVars, history, msgs, fullLog, nAppends, nStable,
                   everFailed, durableAfterFail, handlerRuns>>

\* _get_history(user_id) is called on its own.
Call_get_history(p, u) ==
    /\ Free(p)
    /\ pc' = [pc EXCEPT ![p] = IfRedis("gh_call", "gh_mem")]
    /\ op' = [op EXCEPT ![p] = "get_history"]
    /\ user' = [user EXCEPT ![p] = u]
    /\ query' = [query EXCEPT ![p] = 0]
    /\ max_retries' = [max_retries EXCEPT ![p] = 0]
    /\ attempt' = [attempt EXCEPT ![p] = 0]
    /\ result' = [result EXCEPT ![p] = ReturnsNone]
    /\ obs' = [obs EXCEPT ![p] = NoObs]
    /\ lastOp' = Previous(p)
    /\ UNCHANGED <<storeVars, history, msgs, fullLog, nAppends, nStable,
                   everFailed, durableAfterFail, handlerRuns>>

\* _clear_history(user_id) is called (the second definition of the class,
\* which replaces the first).
Call_clear_history(p, u) ==
    /\ Free(p)
    /\ pc' = [pc EXCEPT ![p] = IfRedis("cl_call", "cl_mem")]
    /\ op' = [op EXCEPT ![p] = "clear_history"]
    /\ user' = [user EXCEPT ![p] = u]
    /\ query' = [query EXCEPT ![p] = 0]
    /\ max_retries' = [max_retries EXCEPT ![p] = 0]
    /\ attempt' = [attempt EXCEPT ![p] = 0]
    /\ result' = [result EXCEPT ![p] = ReturnsNone]
    /\ obs' = [obs EXCEPT ![p] = NoObs]
    /\ lastOp' = Previous(p)
    /\ UNCHANGED <<storeVars, history, msgs, fullLog, nAppends, nStable,
                   everFailed, durableAfterFail, handlerRuns>>

\* ------------------------------------------------------------ _get_history
\* Mutant of AfterLoad: the loop starts as soon as the history is loaded.
AfterLoadAttempt == "llm"

\* Where get_response goes on when _get_history has returned (line 309):
\* to the stage note, the context and the messages (lines 311 to 341).
AfterLoad == "build"

\* What _get_history hands back: list object o, holding items. get_response
\* keeps it as `history`; a direct caller is given the list.
Got(p, o, items, fresh) ==
    IF op[p] = "get_response"
    THEN /\ pc' = [pc EXCEPT ![p] = AfterLoad]
         /\ history' = [history EXCEPT ![p] = o]
         /\ heap' = Collect([heap EXCEPT ![o] = items], conversations, history')
         /\ obs' = [obs EXCEPT ![p] = [@ EXCEPT !.fresh = fresh,
                                                !.loaded = items,
                                                !.loads = @ + 1]]
         /\ UNCHANGED <<result, msgs>>
    ELSE /\ Finish(p, ReturnsHistory(items))
         /\ heap' = Collect(heap, conversations, history')
         /\ obs' = obs

\* s = self.redis.get(key): the request is sent.
GH_call(p) ==
    /\ pc[p] = "gh_call"
    /\ IF redis = "None"
       THEN NoHandle(p, GetCaught("AttributeError"), "gh_mem")
       ELSE Issue(p, "gh_wait")

\* The reply: return json.loads(s) if s else [] -- or the except handler.
GH_reply(p) ==
    /\ pc[p] = "gh_wait"
    /\ \E exc \in Replies :
         IF exc = "ok"
         THEN /\ Got(p, NewObj(conversations, history), kv[user[p]], TRUE)
              /\ UNCHANGED <<redis, kv_ready, kv, conversations, fullLog,
                             nAppends, nStable, everFailed, handlerRuns>>
         ELSE IF GetCaught(exc)
         THEN Handler(p, exc, "gh_mem")
         ELSE /\ Raise(p)
              /\ UNCHANGED <<storeVars, obs, fullLog, nAppends, nStable,
                             everFailed, handlerRuns>>
    /\ UNCHANGED <<op, user, max_retries, attempt, query, lastOp,
                   durableAfterFail>>

\* Mutant of MissingEntry: a user with no entry in the map is answered with
\* the value Redis holds.
MissingEntryDurable(user_id) == kv[user_id]

\* The default [] of self.conversations.get(user_id, []).
MissingEntry(user_id) == <<>>

\* return self.conversations.get(user_id, [])
GH_mem(p) ==
    /\ pc[p] = "gh_mem"
    /\ LET held == conversations[user[p]] IN
       IF held # NoObj
       THEN Got(p, held, heap[held], FALSE)
       ELSE Got(p, NewObj(conversations, history), MissingEntry(user[p]), TRUE)
    /\ UNCHANGED <<redis, kv_ready, kv, conversations, op, user, max_retries,
                   attempt, query, lastOp, fullLog, nAppends, nStable,
                   everFailed, durableAfterFail, handlerRuns>>

\* ------------------------------------------------------------ get_response
\* {"role": "system", "content": enhanced_prompt}, the system message built
\* for the call with query q.
SystemMessage(q) == Turn("system", q)

\* Mutant of HistorySlice: the whole list.
HistoryWhole(h) == h

\* history[-20:]
HistorySlice(h) ==
    IF Len(h) <= HistoryCap THEN h
    ELSE SubSeq(h, Len(h) - HistoryCap + 1, Len(h))

\* messages: the system message, extended by the slice of history, the user
\* message appended.
Messages(system, h, q) == <<system>> \o HistorySlice(h) \o <<UserTurn(q)>>

\* Lines 311 to 341: the system message is built and the request is put
\* together from it, the list _get_history returned as it is now, and the
\* query.  All attempts of the loop send this request.
BuildMessages(p) ==
    /\ pc[p] = "build"
    /\ pc' = [pc EXCEPT ![p] = "llm"]
    /\ obs' = [obs EXCEPT ![p] =
                  [@ EXCEPT !.request = Messages(SystemMessage(query[p]),
                                                 heap[history[p]], query[p]),
                            !.listed = heap[history[p]],
                            !.builds = @ + 1]]
    /\ UNCHANGED <<storeVars, op, user, max_retries, attempt, query, history,
                   msgs, result, lastOp, fullLog, nAppends, nStable,
                   everFailed, durableAfterFail, handlerRuns>>

\* messages=messages of chat.completions.create: the list built before the
\* loop.
AttemptMessages(p) == obs[p].request

\* Mutant of InRange: the loop body runs once more when the range is used up.
InRangeInclusive(a, n) == a <= n

\* for attempt in range(max_retries): attempt takes 0 .. max_retries - 1.
InRange(a, n) == a < n

\* Mutant of WillRetry: the except clause sleeps after the last attempt too.
WillRetryAlways(a, n) == a < n

\* if attempt < max_retries - 1: another attempt follows, time.sleep(2) runs
\* before it.
WillRetry(a, n) == a < n - 1

\* for attempt in range(max_retries): the request succeeds and
\* response.choices[0].message.content is read.
LLM_ok(p) ==
    /\ pc[p] = "llm"
    /\ InRange(attempt[p], max_retries[p])
    /\ pc' = [pc EXCEPT ![p] = "append_user"]
    /\ obs' = [obs EXCEPT ![p] = [@ EXCEPT !.llm = @ + 1, !.ok = TRUE,
                                      !.models = @ \cup {RequestModel},
                                      !.sent = @ \cup {AttemptMessages(p)}]]
    /\ UNCHANGED <<storeVars, op, user, max_retries, attempt, query, history,
                   msgs, result, lastOp, fullLog, nAppends, nStable,
                   everFailed, durableAfterFail, handlerRuns>>

\* The request, or the reading of its response, raises: the except clause
\* sleeps and lets the loop go on, or returns the apology after the last attempt.
LLM_fail(p) ==
    /\ pc[p] = "llm"
    /\ InRange(attempt[p], max_retries[p])
    /\ \E kind \in FailureKinds :
         IF LLMCaught(kind)
         THEN IF WillRetry(attempt[p], max_retries[p])
              THEN /\ attempt' = [attempt EXCEPT ![p] = NextAttempt(@, kind)]
                   /\ obs' = [obs EXCEPT ![p] =
                                 [@ EXCEPT !.llm = @ + 1, !.slept = @ + 1,
                                           !.models = @ \cup {RequestModel},
                                           !.sent = @ \cup {AttemptMessages(p)}]]
                   /\ UNCHANGED <<pc, result, history, msgs, heap>>
              ELSE /\ Finish(p, FallbackMessage)
                   /\ heap' = Collect(heap, conversations, history')
                   /\ obs' = [obs EXCEPT ![p] =
                                 [@ EXCEPT !.llm = @ + 1,
                                           !.models = @ \cup {RequestModel},
                                           !.sent = @ \cup {AttemptMessages(p)}]]
                   /\ UNCHANGED attempt
         ELSE /\ Raise(p)
              /\ heap' = Collect(heap, conversations, history')
              /\ obs' = [obs EXCEPT ![p] =
                            [@ EXCEPT !.llm = @ + 1,
                                      !.models = @ \cup {RequestModel},
                                      !.sent = @ \cup {AttemptMessages(p)}]]
              /\ UNCHANGED attempt
    /\ UNCHANGED <<redis, kv_ready, kv, conversations, op, user, max_retries,
                   query, lastOp, fullLog, nAppends, nStable, everFailed,
                   durableAfterFail, handlerRuns>>

\* range(max_retries) is used up without a return inside the loop: the
\* function ends without a return statement.
ForExhausted(p) ==
    /\ pc[p] = "llm"
    /\ ~InRange(attempt[p], max_retries[p])
    /\ Finish(p, ReturnsNone)
    /\ heap' = Collect(heap, conversations, history')
    /\ UNCHANGED <<redis, kv_ready, kv, conversations, op, user, max_retries,
                   attempt, query, obs, lastOp, fullLog, nAppends, nStable,
                   everFailed, durableAfterFail, handlerRuns>>

\* history.append({"role": "user", "content": query})
AppendUser(p) ==
    /\ pc[p] = "append_user"
    /\ heap' = [heap EXCEPT ![history[p]] = Append(@, UserTurn(query[p]))]
    /\ obs' = [obs EXCEPT ![p] =
                  [@ EXCEPT !.appended = Append(@, UserTurn(query[p]))]]
    /\ pc' = [pc EXCEPT ![p] = "append_ai"]
    /\ UNCHANGED <<redis, kv_ready, kv, conversations, op, user, max_retries,
                   attempt, query, history, msgs, result, lastOp, fullLog,
                   nAppends, nStable, everFailed, durableAfterFail, handlerRuns>>

\* history.append({"role": "assistant", "content": ai_response})
AppendAi(p) ==
    /\ pc[p] = "append_ai"
    /\ heap' = [heap EXCEPT ![history[p]] = Append(@, AiResponse(query[p]))]
    /\ obs' = [obs EXCEPT ![p] =
                  [@ EXCEPT !.appended = Append(@, AiResponse(query[p]))]]
    /\ pc' = [pc EXCEPT ![p] = "sh_check"]
    /\ UNCHANGED <<redis, kv_ready, kv, conversations, op, user, max_retries,
                   attempt, query, history, msgs, result, lastOp, fullLog,
                   nAppends, nStable, everFailed, durableAfterFail, handlerRuns>>

\* ------------------------------------------------------------ _set_history
\* self._set_history(user_id, history): msgs = msgs[-20:]; if self.redis:
SH_check(p) ==
    /\ pc[p] = "sh_check"
    /\ msgs' = [msgs EXCEPT ![p] = KeepLast(heap[history[p]])]
    /\ pc' = [pc EXCEPT ![p] = IfRedis("sh_call", "sh_mem")]
    /\ obs' = [obs EXCEPT ![p] = [@ EXCEPT !.sets = @ + 1]]
    /\ UNCHANGED <<storeVars, op, user, max_retries, attempt, query, history,
                   result, lastOp, fullLog, nAppends, nStable, everFailed,
                   durableAfterFail, handlerRuns>>

\* self.redis.setex(key, ttl, json.dumps(msgs)): the request is sent.
SH_call(p) ==
    /\ pc[p] = "sh_call"
    /\ IF redis = "None"
       THEN NoHandle(p, SetCaught("AttributeError"), "sh_mem")
       ELSE Issue(p, "sh_wait")

\* The reply: return, and get_response returns ai_response -- or the except
\* handler.
SH_reply(p) ==
    /\ pc[p] = "sh_wait"
    /\ \E exc \in Replies :
         IF exc = "ok"
         THEN /\ kv' = [kv EXCEPT ![user[p]] = msgs[p]]
              /\ Finish(p, ReturnsAnswer(query[p]))
              /\ heap' = Collect(heap, conversations, history')
              /\ obs' = [obs EXCEPT ![p] = [@ EXCEPT !.written = msgs[p],
                                                     !.backend = "durable"]]
              /\ Logged(p)
              /\ UNCHANGED <<redis, kv_ready, conversations, everFailed,
                             handlerRuns>>
         ELSE IF SetCaught(exc)
         THEN Handler(p, exc, "sh_mem")
         ELSE /\ Raise(p)
              /\ UNCHANGED <<storeVars, obs, fullLog, nAppends, nStable,
                             everFailed, handlerRuns>>
    /\ UNCHANGED <<op, user, max_retries, attempt, query, lastOp,
                   durableAfterFail>>

\* self.conversations[user_id] = msgs -- and get_response returns ai_response.
SH_mem(p) ==
    /\ pc[p] = "sh_mem"
    /\ Finish(p, ReturnsAnswer(query[p]))
    /\ LET o == NewObj(conversations, history) IN
         /\ conversations' = [conversations EXCEPT ![user[p]] = o]
         /\ heap' = Collect([heap EXCEPT ![o] = msgs[p]], conversations', history')
    /\ obs' = [obs EXCEPT ![p] = [@ EXCEPT !.written = msgs[p],
                                           !.backend = "memory"]]
    /\ Logged(p)
    /\ UNCHANGED <<redis, kv_ready, kv, op, user, max_retries, attempt, query,
                   lastOp, everFailed, durableAfterFail, handlerRuns>>

\* ---------------------------------------------------------- _clear_history
\* self.redis.delete(key): the request is sent.
CL_call(p) ==
    /\ pc[p] = "cl_call"
    /\ IF redis = "None"
       THEN NoHandle(p, DeleteCaught("AttributeError"), "cl_mem")
       ELSE Issue(p, "cl_wait")

\* The reply: return -- or the except handler.
CL_reply(p) ==
    /\ pc[p] = "cl_wait"
    /\ \E exc \in Replies :
         IF exc = "ok"
         THEN /\ kv' = [kv EXCEPT ![user[p]] = <<>>]
              /\ Finish(p, ReturnsNone)
              /\ obs' = [obs EXCEPT ![p] = [@ EXCEPT !.backend = "durable"]]
              /\ Unlogged(user[p])
              /\ UNCHANGED <<redis, kv_ready, conversations, heap,
                             everFailed, handlerRuns>>
         ELSE IF DeleteCaught(exc)
         THEN Handler(p, exc, "cl_mem")
         ELSE /\ Raise(p)
              /\ UNCHANGED <<storeVars, obs, fullLog, nAppends, nStable,
                             everFailed, handlerRuns>>
    /\ UNCHANGED <<op, user, max_retries, attempt, query, lastOp,
                   durableAfterFail>>

\* Mutant of Popped: the whole in-memory map is emptied.
PoppedAll(conv, user_id) == [u \in Users |-> NoObj]

\* self.conversations.pop(user_id, None)
Popped(conv, user_id) == [conv EXCEPT ![user_id] = NoObj]

\* _clear_history in memory mode, and its return.
CL_mem(p) ==
    /\ pc[p] = "cl_mem"
    /\ Finish(p, ReturnsNone)
    /\ conversations' = Popped(conversations, user[p])
    /\ heap' = Collect(heap, conversations', history')
    /\ obs' = [obs EXCEPT ![p] = [@ EXCEPT !.backend = "memory"]]
    /\ Unlogged(user[p])
    /\ UNCHANGED <<redis, kv_ready, kv, op, user, max_retries, attempt, query,
                   lastOp, everFailed, durableAfterFail, handlerRuns>>

\* ---------------------------------------------------------- specifications
\* Request threads are interchangeable workers: a request goes to the first
\* free one.
FirstFree(p) == \A p2 \in Procs : Free(p2) => (p = p2 \/ p = "p1")

\* Users are interchangeable: the first request is u1's.
FirstUser(u) == (nCalls = 0) => (u = "u1")

\* max_retries of the calls of concurrent threads: no attempt, or one (the
\* retry loop itself is explored by SpecSeq).
SpecRetries == {0, 1}

\* The query of the next call of Spec: one never seen before.
NewQuery == PreExchanges + nCalls + 1

Start_get_response ==
    \E p \in Procs, u \in Users, mr \in SpecRetries :
        /\ nCalls < MaxCalls
        /\ FirstFree(p)
        /\ FirstUser(u)
        /\ nCalls' = nCalls + 1
        /\ Call_get_response(p, u, NewQuery, mr)
        /\ UNCHANGED outsideVars

Start_clear_history ==
    \E p \in Procs, u \in Users :
        /\ nCalls < MaxCalls
        /\ FirstFree(p)
        /\ FirstUser(u)
        /\ nCalls' = nCalls + 1
        /\ Call_clear_history(p, u)
        /\ UNCHANGED outsideVars

\* Concurrent request threads.
Next ==
    \/ Start_get_response
    \/ Start_clear_history
    \/ \E p \in Procs : GH_call(p) /\ UNCHANGED <<nCalls, outsideVars>>
    \/ \E p \in Procs : GH_reply(p) /\ UNCHANGED <<nCalls, outsideVars>>
    \/ \E p \in Procs : GH_mem(p) /\ UNCHANGED <<nCalls, outsideVars>>
    \/ \E p \in Procs : BuildMessages(p) /\ UNCHANGED <<nCalls, outsideVars>>
    \/ \E p \in Procs : LLM_ok(p) /\ UNCHANGED <<nCalls, outsideVars>>
    \/ \E p \in Procs : LLM_fail(p) /\ UNCHANGED <<nCalls, outsideVars>>
    \/ \E p \in Procs : ForExhausted(p) /\ UNCHANGED <<nCalls, outsideVars>>
    \/ \E p \in Procs : AppendUser(p) /\ UNCHANGED <<nCalls, outsideVars>>
    \/ \E p \in Procs : AppendAi(p) /\ UNCHANGED <<nCalls, outsideVars>>
    \/ \E p \in Procs : SH_check(p) /\ UNCHANGED <<nCalls, outsideVars>>
    \/ \E p \in Procs : SH_call(p) /\ UNCHANGED <<nCalls, outsideVars>>
    \/ \E p \in Procs : SH_reply(p) /\ UNCHANGED <<nCalls, outsideVars>>
    \/ \E p \in Procs : SH_mem(p) /\ UNCHANGED <<nCalls, outsideVars>>
    \/ \E p \in Procs : CL_call(p) /\ UNCHANGED <<nCalls, outsideVars>>
    \/ \E p \in Procs : CL_reply(p) /\ UNCHANGED <<nCalls, outsideVars>>
    \/ \E p \in Procs : CL_mem(p) /\ UNCHANGED <<nCalls, outsideVars>>

Spec == Init /\ [][Next]_vars

\* Concurrent request threads that all serve one user (a double send).
One_get_response ==
    \E p \in Procs, mr \in SpecRetries :
        /\ nCalls < MaxOneCalls
        /\ FirstFree(p)
        /\ nCalls' = nCalls + 1
        /\ Call_get_response(p, "u1", NewQuery, mr)
        /\ UNCHANGED outsideVars

One_clear_history ==
    \E p \in Procs :
        /\ nCalls < MaxOneCalls
        /\ FirstFree(p)
        /\ nCalls' = nCalls + 1
        /\ Call_clear_history(p, "u1")
        /\ UNCHANGED outsideVars

NextOne ==
    \/ One_get_response
    \/ One_clear_history
    \/ \E p \in Procs : GH_call(p) /\ UNCHANGED <<nCalls, outsideVars>>
    \/ \E p \in Procs : GH_reply(p) /\ UNCHANGED <<nCalls, outsideVars>>
    \/ \E p \in Procs : GH_mem(p) /\ UNCHANGED <<nCalls, outsideVars>>
    \/ \E p \in Procs : BuildMessages(p) /\ UNCHANGED <<nCalls, outsideVars>>
    \/ \E p \in Procs : LLM_ok(p) /\ UNCHANGED <<nCalls, outsideVars>>
    \/ \E p \in Procs : LLM_fail(p) /\ UNCHANGED <<nCalls, outsideVars>>
    \/ \E p \in Procs : ForExhausted(p) /\ UNCHANGED <<nCalls, outsideVars>>
    \/ \E p \in Procs : AppendUser(p) /\ UNCHANGED <<nCalls, outsideVars>>
    \/ \E p \in Procs : AppendAi(p) /\ UNCHANGED <<nCalls, outsideVars>>
    \/ \E p \in Procs : SH_check(p) /\ UNCHANGED <<nCalls, outsideVars>>
    \/ \E p \in Procs : SH_call(p) /\ UNCHANGED <<nCalls, outsideVars>>
    \/ \E p \in Procs : SH_reply(p) /\ UNCHANGED <<nCalls, outsideVars>>
    \/ \E p \in Procs : SH_mem(p) /\ UNCHANGED <<nCalls, outsideVars>>
    \/ \E p \in Procs : CL_call(p) /\ UNCHANGED <<nCalls, outsideVars>>
    \/ \E p \in Procs : CL_reply(p) /\ UNCHANGED <<nCalls, outsideVars>>
    \/ \E p \in Procs : CL_mem(p) /\ UNCHANGED <<nCalls, outsideVars>>

\* Nothing is ever asked about the other users.
InitOne == Init /\ \A u \in Users \ {"u1"} : kv[u] = <<>>

SpecOne == InitOne /\ [][NextOne]_vars

\* ------------------------------------------------------------------ startup
\* The process starts: app.py is imported and builds the engine.
BootInit ==
    /\ boot = "init"
    /\ env \in [GROQ_API_KEY : BOOLEAN, LLM_MODEL : {NoValue} \cup Candidates]
    /\ cache_file \in {"absent", NoValue, "unreadable"} \cup Candidates
    /\ cache0 = cache_file
    /\ model = Unset
    /\ krishigpt = "None"
    /\ fb = 1
    /\ probes = <<>>
    /\ source = "none"
    /\ responses = {}

\* Mutant of CacheAfter: every adopted model is cached.
CacheAlways(m, from) == m

\* working_model.txt when _find_working_model returns m: written on the
\* fallback path only.
CacheAfter(m, from) == IF from = "fallback" THEN m ELSE cache_file

\* return env_model / saved / model_name: self.model is assigned.
Adopt(m, from) ==
    /\ model' = m
    /\ cache_file' = CacheAfter(m, from)
    /\ source' = from
    /\ boot' = "selected"

\* KrishiGPT.__init__ up to the call of _find_working_model: without
\* GROQ_API_KEY it raises ValueError.
KrishiGPT_init ==
    /\ boot = "init"
    /\ boot' = IF env.GROQ_API_KEY THEN "env" ELSE "raised"
    /\ UNCHANGED <<env, cache_file, cache0, model, krishigpt, fb, probes,
                   source, responses>>

\* 1) Env override: probed when LLM_MODEL is set; a failure is logged and
\* falls through.
FWM_env ==
    /\ boot = "env"
    /\ IF env.LLM_MODEL = NoValue
       THEN /\ boot' = "cache"
            /\ UNCHANGED <<model, source, probes, cache_file>>
       ELSE \E ok \in BOOLEAN :
              /\ probes' = Append(probes, Probe(env.LLM_MODEL, ok, "no"))
              /\ IF ok THEN Adopt(env.LLM_MODEL, "override")
                       ELSE /\ boot' = "cache"
                            /\ UNCHANGED <<model, source, cache_file>>
    /\ UNCHANGED <<env, cache0, krishigpt, fb, responses>>

\* 2) Cached previous: probed when working_model.txt exists, can be read and
\* is not blank; every exception is passed over.
FWM_cache ==
    /\ boot = "cache"
    /\ IF cache_file \in {"absent", "unreadable", NoValue}
       THEN /\ boot' = "fallback"
            /\ UNCHANGED <<model, source, probes, cache_file>>
       ELSE \E ok \in BOOLEAN :
              /\ probes' = Append(probes, Probe(cache_file, ok, "no"))
              /\ IF ok THEN Adopt(cache_file, "cache")
                       ELSE /\ boot' = "fallback"
                            /\ UNCHANGED <<model, source, cache_file>>
    /\ UNCHANGED <<env, cache0, krishigpt, fb, responses>>

\* 3) Fallback list, one model_name per step: the probe, and after a probe
\* that succeeded the write of working_model.txt; "except Exception: continue"
\* covers both.
FWM_fallback ==
    /\ boot = "fallback"
    /\ fb <= Len(models_to_try)
    /\ LET model_name == models_to_try[fb] IN
       \E ok \in BOOLEAN, w \in WriteOutcomes :
         /\ ok \/ w = "ok"
         /\ probes' = Append(probes,
                             Probe(model_name, ok, IF ok THEN w ELSE "no"))
         /\ IF ok /\ w = "ok"
            THEN /\ Adopt(model_name, "fallback")
                 /\ UNCHANGED fb
            ELSE /\ fb' = fb + 1
                 /\ UNCHANGED <<cache_file, model, source, boot>>
    /\ UNCHANGED <<env, cache0, krishigpt, responses>>

\* raise RuntimeError("No working model found on Groq!")
FWM_raise ==
    /\ boot = "fallback"
    /\ fb > Len(models_to_try)
    /\ boot' = "raised"
    /\ UNCHANGED <<env, cache_file, cache0, model, krishigpt, fb, probes,
                   source, responses>>

\* app.py: krishigpt = KrishiGPT() in a try; "except Exception" sets
\* krishigpt = None and the module goes on to define and serve its routes.
App_init ==
    /\ boot \in {"selected", "raised"}
    /\ krishigpt' = IF boot = "selected" THEN "KrishiGPT" ELSE "None"
    /\ boot' = "serving"
    /\ UNCHANGED <<env, cache_file, cache0, model, fb, probes, source,
                   responses>>

\* GET /health: answered whatever krishigpt is.
health ==
    /\ boot = "serving"
    /\ responses' = responses \cup {"health 200"}
    /\ UNCHANGED <<env, cache_file, cache0, model, krishigpt, fb, probes,
                   source, boot>>

\* POST /api/chat without an engine: 503.
chat_503 ==
    /\ boot = "serving"
    /\ krishigpt = "None"
    /\ responses' = responses \cup {"chat 503"}
    /\ UNCHANGED <<env, cache_file, cache0, model, krishigpt, fb, probes,
                   source, boot>>

\* One request thread, one user, calls one after the other; the query of a
\* call is numbered after the exchanges persisted for the user so far.
SeqProc == "p1"

SeqUser == "u1"

SeqQuery == PreExchanges + nAppends[SeqUser] + 1

StartSeq_get_response ==
    \E mr \in 0..MaxRetries :
        /\ nAppends[SeqUser] < MaxSeqAppends
        /\ Call_get_response(SeqProc, SeqUser, SeqQuery, mr)
        /\ UNCHANGED <<nCalls, outsideVars>>

StartSeq_get_history ==
    Call_get_history(SeqProc, SeqUser) /\ UNCHANGED <<nCalls, outsideVars>>

StartSeq_clear_history ==
    Call_clear_history(SeqProc, SeqUser) /\ UNCHANGED <<nCalls, outsideVars>>

NextSeq ==
    \/ StartSeq_get_response
    \/ StartSeq_get_history
    \/ StartSeq_clear_history
    \/ GH_call(SeqProc) /\ UNCHANGED <<nCalls, outsideVars>>
    \/ GH_reply(SeqProc) /\ UNCHANGED <<nCalls, outsideVars>>
    \/ GH_mem(SeqProc) /\ UNCHANGED <<nCalls, outsideVars>>
    \/ BuildMessages(SeqProc) /\ UNCHANGED <<nCalls, outsideVars>>
    \/ LLM_ok(SeqProc) /\ UNCHANGED <<nCalls, outsideVars>>
    \/ LLM_fail(SeqProc) /\ UNCHANGED <<nCalls, outsideVars>>
    \/ ForExhausted(SeqProc) /\ UNCHANGED <<nCalls, outsideVars>>
    \/ AppendUser(SeqProc) /\ UNCHANGED <<nCalls, outsideVars>>
    \/ AppendAi(SeqProc) /\ UNCHANGED <<nCalls, outsideVars>>
    \/ SH_check(SeqProc) /\ UNCHANGED <<nCalls, outsideVars>>
    \/ SH_call(SeqProc) /\ UNCHANGED <<nCalls, outsideVars>>
    \/ SH_reply(SeqProc) /\ UNCHANGED <<nCalls, outsideVars>>
    \/ SH_mem(SeqProc) /\ UNCHANGED <<nCalls, outsideVars>>
    \/ CL_call(SeqProc) /\ UNCHANGED <<nCalls, outsideVars>>
    \/ CL_reply(SeqProc) /\ UNCHANGED <<nCalls, outsideVars>>
    \/ CL_mem(SeqProc) /\ UNCHANGED <<nCalls, outsideVars>>

SpecSeq == InitOne /\ [][NextSeq]_vars

\* POST /api/chat with an engine: krishigpt.get_response(user_id, message,
\* meta=meta), max_retries left at its default.
chat ==
    /\ boot = "serving"
    /\ krishigpt = "KrishiGPT"
    /\ nCalls < MaxStartCalls
    /\ nCalls' = nCalls + 1
    /\ Call_get_response(SeqProc, SeqUser, SeqQuery, DefaultMaxRetries)
    /\ UNCHANGED outsideVars

\* The process from its start: startup, then requests served by one thread.
\* The store is in memory mode, so no step of a durable call is taken, and the
\* endpoints never pass max_retries, so the loop never ends without a return.
InitStart ==
    /\ StoreInit
    /\ redis = "None"
    /\ BootInit
    /\ PromptIdle
    /\ ApiIdle

NextStart ==
    \/ KrishiGPT_init /\ UNCHANGED <<storeVars, callVars, promptVars, stageVars, apiVars>>
    \/ FWM_env /\ UNCHANGED <<storeVars, callVars, promptVars, stageVars, apiVars>>
    \/ FWM_cache /\ UNCHANGED <<storeVars, callVars, promptVars, stageVars, apiVars>>
    \/ FWM_fallback /\ UNCHANGED <<storeVars, callVars, promptVars, stageVars, apiVars>>
    \/ FWM_raise /\ UNCHANGED <<storeVars, callVars, promptVars, stageVars, apiVars>>
    \/ App_init /\ UNCHANGED <<storeVars, callVars, promptVars, stageVars, apiVars>>
    \/ health /\ UNCHANGED <<storeVars, callVars, promptVars, stageVars, apiVars>>
    \/ chat_503 /\ UNCHANGED <<storeVars, callVars, promptVars, stageVars, apiVars>>
    \/ chat
    \/ GH_mem(SeqProc) /\ UNCHANGED <<nCalls, outsideVars>>
    \/ BuildMessages(SeqProc) /\ UNCHANGED <<nCalls, outsideVars>>
    \/ LLM_ok(SeqProc) /\ UNCHANGED <<nCalls, outsideVars>>
    \/ LLM_fail(SeqProc) /\ UNCHANGED <<nCalls, outsideVars>>
    \/ AppendUser(SeqProc) /\ UNCHANGED <<nCalls, outsideVars>>
    \/ AppendAi(SeqProc) /\ UNCHANGED <<nCalls, outsideVars>>
    \/ SH_check(SeqProc) /\ UNCHANGED <<nCalls, outsideVars>>
    \/ SH_mem(SeqProc) /\ UNCHANGED <<nCalls, outsideVars>>

SpecStart == InitStart /\ [][NextStart]_vars

\* ---------------------------------------------------------- prompt builder
\* _detect_crop applied to the query.
Ask_detect_crop ==
    /\ called = "none"
    /\ called' = "_detect_crop"
    /\ crop_ret' = detect_crop(crop_data, text)
    /\ UNCHANGED <<crop_data, text, stage_text, qtype_ret, context_ret, prompt,
                   stageVars>>

\* _detect_query_type applied to the query.
Ask_detect_query_type ==
    /\ called = "none"
    /\ called' = "_detect_query_type"
    /\ qtype_ret' = detect_query_type(text)
    /\ UNCHANGED <<crop_data, text, stage_text, crop_ret, context_ret, prompt,
                   stageVars>>

\* _get_relevant_context applied to the query.
Ask_get_relevant_context ==
    /\ called = "none"
    /\ called' = "_get_relevant_context"
    /\ context_ret' = get_relevant_context(crop_data, text)
    /\ UNCHANGED <<crop_data, text, stage_text, crop_ret, qtype_ret, prompt,
                   stageVars>>

\* _get_stage_info applied to a crop key and a sowing date.
Ask_get_stage_info(crop_key, sowing_date_str) ==
    /\ called = "none"
    /\ called' = "_get_stage_info"
    /\ meta' = [crop |-> crop_key, sowing_date |-> sowing_date_str]
    /\ stage_ret' = get_stage_info(crop_key, sowing_date_str, today)
    /\ UNCHANGED <<crop_data, text, stage_text, crop_ret, qtype_ret, context_ret,
                   prompt, today>>

\* Lines 309 to 341 of get_response, called with meta m: the stage note is
\* computed from meta and today's date, the context is built from the query
\* and the system message is put together.  An exception raised on the way
\* ends the call.
Build_prompt(m) ==
    /\ called = "none"
    /\ meta' = m
    /\ stage_ret' = StageInfo(m, crop_data, text, today)
    /\ IF Raised(stage_ret')
       THEN /\ called' = "get_response raised"
            /\ UNCHANGED <<stage_text, context_ret, prompt>>
       ELSE /\ called' = "get_response"
            /\ stage_text' = StageText(stage_ret')
            /\ context_ret' = get_relevant_context(crop_data, text)
            /\ prompt' = EnhancedPrompt(stage_text', context_ret')
    /\ UNCHANGED <<crop_data, text, crop_ret, qtype_ret, today>>

\* The NLU helpers and the prompt builder applied to one query each, for
\* every knowledge base of KnowledgeBases and every query of Texts(MaxPieces),
\* without meta and with the meta of scenario C on its day.
InitContext ==
    /\ StoreInit
    /\ redis = "None"
    /\ Started
    /\ ApiIdle
    /\ crop_data \in KnowledgeBases
    /\ text \in Texts(MaxPieces)
    /\ stage_text = EmptyString
    /\ called = "none"
    /\ crop_ret = NoCrop
    /\ qtype_ret = "none"
    /\ context_ret = EmptyString
    /\ prompt = EmptyString
    /\ meta = NoMeta
    /\ today = ScenarioToday
    /\ stage_ret = NoStage

NextContext ==
    \/ Ask_detect_crop /\ UNCHANGED <<storeVars, callVars, bootVars, apiVars>>
    \/ Ask_detect_query_type /\ UNCHANGED <<storeVars, callVars, bootVars, apiVars>>
    \/ Ask_get_relevant_context /\ UNCHANGED <<storeVars, callVars, bootVars, apiVars>>
    \/ \E m \in PromptMetas :
           Build_prompt(m) /\ UNCHANGED <<storeVars, callVars, bootVars, apiVars>>

SpecContext == InitContext /\ [][NextContext]_vars

\* --------------------------------------------------------- stage estimator
\* _get_stage_info and the stage note of get_response for every crop of
\* StageCrops, every sowing date of SowingDates and every day of Todays, with
\* the knowledge base that holds tomato, pea and peanut.
InitStage ==
    /\ StoreInit
    /\ redis = "None"
    /\ Started
    /\ ApiIdle
    /\ crop_data = [crops |-> <<Tomato, Pea, Peanut>>,
                    government_schemes |-> <<PMKisan, KCC>>]
    /\ text \in StageTexts
    /\ stage_text = EmptyString
    /\ called = "none"
    /\ crop_ret = NoCrop
    /\ qtype_ret = "none"
    /\ context_ret = EmptyString
    /\ prompt = EmptyString
    /\ meta = NoMeta
    /\ today \in Todays
    /\ stage_ret = NoStage

NextStage ==
    \/ \E c \in StageCrops, d \in SowingDates :
           Ask_get_stage_info(c, d) /\ UNCHANGED <<storeVars, callVars, bootVars, apiVars>>
    \/ \E m \in Metas :
           Build_prompt(m) /\ UNCHANGED <<storeVars, callVars, bootVars, apiVars>>

SpecStage == InitStage /\ [][NextStage]_vars

\* ------------------------------------------------------------------ progress
\* One step of the thread p inside a call: the reply of Redis or of the LLM
\* arrives (with a result or with an exception), or the next statement runs.
ThreadStep(p) ==
    /\ \/ GH_call(p) \/ GH_reply(p) \/ GH_mem(p) \/ BuildMessages(p)
       \/ LLM_ok(p) \/ LLM_fail(p) \/ ForExhausted(p)
       \/ AppendUser(p) \/ AppendAi(p)
       \/ SH_check(p) \/ SH_call(p) \/ SH_reply(p) \/ SH_mem(p)
       \/ CL_call(p) \/ CL_reply(p) \/ CL_mem(p)
    /\ UNCHANGED <<nCalls, outsideVars>>

\* SpecSeq with a thread that is not held up for ever: every LLM call and
\* every store call returns or fails in the end (time.sleep returns too).
\* Nothing obliges a caller to start a call.
SpecLive == InitOne /\ [][NextSeq]_vars /\ WF_vars(ThreadStep(SeqProc))

\* ------------------------------------------------------ endpoints of app.py
\* The methods of class KrishiGPT an endpoint can call (the names defined in
\* the class body of src/ai_engine.py).
KrishiGPTMethods ==
    {"__init__", "_find_working_model", "_load_system_prompt", "_load_crop_data",
     "_detect_crop", "_detect_query_type", "_get_relevant_context",
     "_get_stage_info", "_conv_key", "_get_history", "_set_history",
     "get_response", "_clear_history", "get_quick_info"}

\* krishigpt.<name> finds a method.
HasMethod(name) == name \in KrishiGPTMethods

\* The decorators of chat_secure as written, from the top line down.
ChatSecureDecorators == <<"require_api_key", "limiter.limit", "app.route">>

\* Decorators are applied from the bottom line up.  app.route registers the
\* function it is given as the view of the URL, and that function has been
\* wrapped by the decorators below app.route only.
WrapsRegisteredView(decorators) ==
    {decorators[i] : i \in {j \in DOMAIN decorators :
                               \E r \in 1..(j - 1) : decorators[r] = "app.route"}}

\* _wrap of require_api_key: "f" when the view function is called, "401".
require_api_key(expected, provided) ==
    IF strip(expected) = EmptyString THEN "f"
    ELSE IF strip(provided) # strip(expected) THEN "401"
    ELSE "f"

\* What the view registered for /api/chat-secure does with a request.
ChatSecureView(expected, provided) ==
    IF "require_api_key" \in WrapsRegisteredView(ChatSecureDecorators)
    THEN require_api_key(expected, provided)
    ELSE "f"

\* The values of API_SECRET and of the X-API-Key header.
Secret == <<"k", "1">>

Secrets == {EmptyString, Secret}

Keys == {EmptyString, Secret, <<"k", "2">>, <<" ", "k", "1">>}

\* user_id of a request body: a user, or none.
UserIds == Users \cup {NoValue}

\* The call variables an endpoint that does not call the engine leaves alone.
engineVars == <<pc, op, user, max_retries, attempt, query, history, msgs, result,
                obs, lastOp, fullLog, nAppends, nStable, everFailed,
                durableAfterFail, handlerRuns>>

\* The body of chat and of chat_secure (the two are the same): 400 without a
\* message, else get_response is called with the default max_retries.
ChatBody(endpoint, u, key, has_message) ==
    IF ~has_message
    THEN /\ http' = [endpoint |-> endpoint, user_id |-> u, key |-> key,
                     status |-> "400", after_reset |-> u \in reset_asked]
         /\ UNCHANGED <<storeVars, engineVars, reset_asked>>
    ELSE /\ Call_get_response(SeqProc, u, NewQuery, DefaultMaxRetries)
         /\ http' = [endpoint |-> endpoint, user_id |-> u, key |-> key,
                     status |-> "get_response", after_reset |-> u \in reset_asked]
         /\ reset_asked' = reset_asked \ {u}

\* POST /api/chat
api_chat(u, has_message) ==
    /\ nCalls < MaxApiRequests
    /\ Free(SeqProc)
    /\ http.status # "get_response"
    /\ nCalls' = nCalls + 1
    /\ ChatBody("/api/chat", u, EmptyString, has_message)
    /\ UNCHANGED <<bootVars, promptVars, stageVars, api_secret>>

\* POST /api/chat-secure with the header X-API-Key: key
api_chat_secure(u, key, has_message) ==
    /\ nCalls < MaxApiRequests
    /\ Free(SeqProc)
    /\ http.status # "get_response"
    /\ nCalls' = nCalls + 1
    /\ IF ChatSecureView(api_secret, key) = "401"
       THEN /\ http' = [endpoint |-> "/api/chat-secure", user_id |-> u,
                        key |-> key, status |-> "401",
                        after_reset |-> u \in reset_asked]
            /\ UNCHANGED <<storeVars, engineVars, reset_asked>>
       ELSE ChatBody("/api/chat-secure", u, key, has_message)
    /\ UNCHANGED <<bootVars, promptVars, stageVars, api_secret>>

\* get_response has returned to chat or chat_secure: the answer is sent with
\* 200; an exception (get_response raised, or returned None so that
\* "answer +=" raises) is answered 500.
api_respond ==
    /\ http.status = "get_response"
    /\ pc[SeqProc] \in {"done", "raised"}
    /\ http' = [http EXCEPT !.status =
                   IF pc[SeqProc] = "done" /\ result[SeqProc].kind \in {"answer", "apology"}
                   THEN "200" ELSE "500"]
    /\ UNCHANGED <<storeVars, callVars, bootVars, promptVars, stageVars,
                   api_secret, reset_asked>>

\* POST /api/clear-history: "if krishigpt and user_id:
\* krishigpt.clear_history(user_id)", then the success response.  The
\* attribute lookup raises AttributeError when the class has no such method,
\* and the 500 handler answers.
api_clear_history(u) ==
    /\ nCalls < MaxApiRequests
    /\ Free(SeqProc)
    /\ http.status # "get_response"
    /\ nCalls' = nCalls + 1
    /\ IF krishigpt # "None" /\ u # NoValue
       THEN IF HasMethod("clear_history")
            THEN /\ Call_clear_history(SeqProc, u)
                 /\ http' = [endpoint |-> "/api/clear-history", user_id |-> u,
                             key |-> EmptyString, status |-> "200",
                             after_reset |-> FALSE]
            ELSE /\ http' = [endpoint |-> "/api/clear-history", user_id |-> u,
                             key |-> EmptyString, status |-> "500",
                             after_reset |-> FALSE]
                 /\ UNCHANGED <<storeVars, engineVars>>
       ELSE /\ http' = [endpoint |-> "/api/clear-history", user_id |-> u,
                        key |-> EmptyString, status |-> "200",
                        after_reset |-> FALSE]
            /\ UNCHANGED <<storeVars, engineVars>>
    /\ reset_asked' = IF u # NoValue THEN reset_asked \cup {u} ELSE reset_asked
    /\ UNCHANGED <<bootVars, promptVars, stageVars, api_secret>>

\* A WhatsApp message that is one of the reset keywords:
\* krishigpt.clear_history(sender), then the reply "history cleared".  The
\* AttributeError is caught by the except clause of the webhook, which
\* replies with its apology (the status is 200 either way).
whatsapp_reset(sender) ==
    /\ nCalls < MaxApiRequests
    /\ Free(SeqProc)
    /\ http.status # "get_response"
    /\ nCalls' = nCalls + 1
    /\ IF HasMethod("clear_history")
       THEN /\ Call_clear_history(SeqProc, sender)
            /\ http' = [endpoint |-> "/whatsapp/webhook", user_id |-> sender,
                        key |-> EmptyString, status |-> "200 cleared",
                        after_reset |-> FALSE]
       ELSE /\ http' = [endpoint |-> "/whatsapp/webhook", user_id |-> sender,
                        key |-> EmptyString, status |-> "200 apology",
                        after_reset |-> FALSE]
            /\ UNCHANGED <<storeVars, engineVars>>
    /\ reset_asked' = reset_asked \cup {sender}
    /\ UNCHANGED <<bootVars, promptVars, stageVars, api_secret>>

\* The server with its engine built, API_SECRET set or not, the history of a
\* user empty or left by earlier requests; requests are handled one after
\* the other.
InitApi ==
    /\ StoreInit
    /\ \A u \in Users \ {SeqUser} : kv[u] = <<>>
    /\ Started
    /\ PromptIdle
    /\ api_secret \in Secrets
    /\ http = NoRequest
    /\ reset_asked = {}

NextApi ==
    \/ \E u \in Users, m \in BOOLEAN : api_chat(u, m)
    \/ \E u \in Users, k \in Keys, m \in BOOLEAN : api_chat_secure(u, k, m)
    \/ api_respond
    \/ \E u \in UserIds : api_clear_history(u)
    \/ \E u \in Users : whatsapp_reset(u)
    \/ GH_call(SeqProc) /\ UNCHANGED <<nCalls, outsideVars>>
    \/ GH_reply(SeqProc) /\ UNCHANGED <<nCalls, outsideVars>>
    \/ GH_mem(SeqProc) /\ UNCHANGED <<nCalls, outsideVars>>
    \/ BuildMessages(SeqProc) /\ UNCHANGED <<nCalls, outsideVars>>
    \/ LLM_ok(SeqProc) /\ UNCHANGED <<nCalls, outsideVars>>
    \/ LLM_fail(SeqProc) /\ UNCHANGED <<nCalls, outsideVars>>
    \/ AppendUser(SeqProc) /\ UNCHANGED <<nCalls, outsideVars>>
    \/ AppendAi(SeqProc) /\ UNCHANGED <<nCalls, outsideVars>>
    \/ SH_check(SeqProc) /\ UNCHANGED <<nCalls, outsideVars>>
    \/ SH_call(SeqProc) /\ UNCHANGED <<nCalls, outsideVars>>
    \/ SH_reply(SeqProc) /\ UNCHANGED <<nCalls, outsideVars>>
    \/ SH_mem(SeqProc) /\ UNCHANGED <<nCalls, outsideVars>>

SpecApi == InitApi /\ [][NextApi]_vars

\* ------------------------------------------------------------------ claims
\* The exchange of a call, as two turns.
OwnTurns(p) == <<UserTurn(query[p]), AiResponse(query[p])>>

\* The n newest items of s, oldest first (all of s when it has fewer).
Newest(s, n) ==
    IF Len(s) <= n THEN s ELSE [i \in 1..n |-> s[Len(s) - n + i]]

\* A get_response call of thread p has returned.
Responded(p) == pc[p] = "done" /\ op[p] = "get_response"

\* What the store holds for user u in the backend in use.
MemoryItems(u) ==
    IF conversations[u] = NoObj THEN <<>> ELSE heap[conversations[u]]

\* C1: get_response never raises to its caller and returns either the LLM's
\* answer or the fixed apology, for every max_retries. (Refuted: with
\* max_retries = 0 the loop body never runs and the function returns None.)
C1Claim ==
    \A p \in Procs :
        /\ pc[p] # "raised"
        /\ Responded(p) =>
               result[p] \in {ReturnsAnswer(query[p]), FallbackMessage}

\* C2: a get_response call in which no LLM attempt succeeded (every one of
\* its max_retries attempts failed) returns the apology and has appended
\* nothing and written nothing to the store. (Refuted on the returned value
\* only, by max_retries = 0.)
C2Claim ==
    \A p \in Procs :
        (Responded(p) /\ ~obs[p].ok) =>
            /\ result[p] = FallbackMessage
            /\ obs[p].appended = <<>>
            /\ obs[p].sets = 0
            /\ obs[p].backend = "none"

\* The part of C2 about the store, which holds for every max_retries.
C2NoWrite ==
    \A p \in Procs :
        (Responded(p) /\ ~obs[p].ok) =>
            /\ obs[p].appended = <<>>
            /\ obs[p].sets = 0
            /\ obs[p].backend = "none"
            /\ (max_retries[p] >= 1 => result[p] = FallbackMessage)

\* C3: within one get_response call the LLM is invoked at most max_retries
\* times; the k-th invocation is attempt k - 1 whatever the kind of the
\* failures before it; after a success, and after the failure that exhausts
\* the limit, the call is past the loop (no further invocation).
C3Theorem ==
    \A p \in Procs :
        op[p] = "get_response" =>
            /\ obs[p].llm <= max_retries[p]
            /\ obs[p].slept = attempt[p]
            /\ obs[p].llm = attempt[p]
                   + (IF obs[p].ok \/ result[p] = FallbackMessage THEN 1 ELSE 0)
            /\ obs[p].ok =>
                   pc[p] \in {"append_user", "append_ai", "sh_check", "sh_call",
                              "sh_wait", "sh_mem", "done"}
            /\ result[p] = FallbackMessage =>
                   (pc[p] = "done" /\ ~obs[p].ok /\ obs[p].llm = max_retries[p])

C3Witness ==
    \E p \in Procs :
        /\ Responded(p)
        /\ obs[p].ok
        /\ max_retries[p] >= 2
        /\ obs[p].llm = max_retries[p]

\* C4: a successful get_response call has appended exactly its user turn and
\* its assistant turn, has called _set_history once, has persisted the history
\* it loaded followed by these two turns (cut to the newest 20), and returns the
\* answer. (Refuted for two overlapping calls of one user in memory mode, which
\* append to one shared list.)
C4Claim ==
    \A p \in Procs :
        (Responded(p) /\ obs[p].ok) =>
            /\ obs[p].appended = OwnTurns(p)
            /\ obs[p].sets = 1
            /\ result[p] = ReturnsAnswer(query[p])
            /\ obs[p].written = Newest(obs[p].loaded \o OwnTurns(p), HistoryCap)

C6Claim ==
    \A u \in Users :
        /\ Len(kv[u]) <= HistoryCap
        /\ Len(MemoryItems(u)) <= HistoryCap

\* C7: _get_history(user) called right after _clear_history(user) returns the
\* empty list, whatever the store held and whether or not the delete or the
\* get fails.
C7Theorem ==
    \A p \in Procs :
        (pc[p] = "done" /\ op[p] = "get_history"
            /\ lastOp[p] = <<"clear_history", user[p]>>) =>
            result[p] = ReturnsHistory(<<>>)

\* The delete failed and left the key in Redis; the get that follows is served
\* by the in-memory map.
C7Witness ==
    \E p \in Procs :
        /\ pc[p] = "done"
        /\ op[p] = "get_history"
        /\ lastOp[p] = <<"clear_history", user[p]>>
        /\ kv[user[p]] # <<>>
        /\ result[p] = ReturnsHistory(<<>>)

\* The delete was served by Redis and the get that follows failed.
C7WitnessGetFails ==
    \E p \in Procs :
        /\ pc[p] = "done"
        /\ op[p] = "get_history"
        /\ lastOp[p] = <<"clear_history", user[p]>>
        /\ obs[p].failedHere
        /\ fullLog[user[p]] = <<>>

\* C8: no store operation raises to its caller; once the durable store has
\* raised, the handle is None, no request is sent to Redis any more, and the
\* operation that met the failure is served by the in-memory map.
C8Theorem ==
    /\ \A p \in Procs : pc[p] # "raised"
    /\ everFailed => (redis = "None" /\ ~kv_ready)
    /\ ~durableAfterFail
    /\ \A p \in Procs : obs[p].failedHere => obs[p].backend # "durable"

C8Witness ==
    \E p \in Procs, p2 \in Procs :
        /\ p # p2
        /\ everFailed
        /\ pc[p] = "done"
        /\ obs[p].failedHere
        /\ obs[p].backend = "memory"
        /\ pc[p2] = "done"
        /\ ~obs[p2].failedHere
        /\ obs[p2].backend = "memory"
        /\ user[p2] # user[p]

\* C9: the downgrade is one-way: a handle that is None stays None, every
\* failure of a durable-store operation leaves the handle None, and no request
\* is sent to Redis after a failure.
C9Theorem ==
    [][/\ (redis = "None") => (redis' = "None")
       /\ everFailed' => (redis' = "None")
       /\ ~durableAfterFail']_vars

C9Witness ==
    /\ everFailed
    /\ redis = "None"
    /\ \E p \in Procs : pc[p] \in {"gh_mem", "sh_mem", "cl_mem"} /\ ~obs[p].failedHere

\* C10: whenever an except handler of the store helpers runs (also the second
\* of two concurrent failures, also for the AttributeError of a handle that
\* became None between the check and the call) no thread raises, the handle is
\* None afterwards, and every entry of the in-memory map is left as it was.
C10Theorem ==
    [][/\ \A p \in Procs : pc'[p] # "raised"
       /\ (handlerRuns' # handlerRuns) =>
             /\ redis' = "None"
             /\ conversations' = conversations
             /\ \A u \in Users : MemoryItems(u)' = MemoryItems(u)]_vars

\* The handlers ran twice or more, one of them for an operation that met the
\* handle gone between its test and its call, and the map holds an entry.
C10Witness ==
    /\ handlerRuns >= 2
    /\ redis = "None"
    /\ \E p \in Procs : obs[p].raced
    /\ \E u \in Users : conversations[u] # NoObj

\* Both concurrent requests raised at the server.
C10WitnessBoth ==
    \E p \in Procs, p2 \in Procs :
        /\ p # p2
        /\ obs[p].failedHere /\ ~obs[p].raced
        /\ obs[p2].failedHere /\ ~obs[p2].raced

\* Thread p completes its _set_history in this step (the write is done and
\* get_response returns).
Persists(p) == pc[p] \in {"sh_wait", "sh_mem"} /\ pc'[p] = "done"

\* C11: last write wins: when a get_response call completes its _set_history,
\* the history stored for the user is exactly the snapshot the call loaded
\* followed by its own two turns (cut to the newest 20), in either store mode,
\* also when another call of the same user overlaps it. (Refuted in memory
\* mode: the overlapping calls append to one shared list.)
C11Claim ==
    [][\A p \in Procs :
          Persists(p) =>
              (IF pc[p] = "sh_wait" THEN kv'[user[p]] ELSE MemoryItems(user[p])')
                  = Newest(obs[p].loaded \o OwnTurns(p), HistoryCap)]_vars

\* The part of C11 that holds: a write served by Redis stores the writer's
\* snapshot followed by its two turns.
C11Durable ==
    [][\A p \in Procs :
          (Persists(p) /\ pc[p] = "sh_wait") =>
              kv'[user[p]] = Newest(obs[p].loaded \o OwnTurns(p), HistoryCap)]_vars

\* The candidates of a selection in the order claimed: the override when
\* LLM_MODEL is set, the cached identifier when the cache file the process
\* found holds one, then the fallback list.
ExpectedOrder ==
    (IF env.LLM_MODEL # NoValue THEN <<env.LLM_MODEL>> ELSE <<>>)
    \o (IF cache0 \in {"absent", "unreadable", NoValue} THEN <<>> ELSE <<cache0>>)
    \o models_to_try

\* _find_working_model has returned or raised.
SelectionOver == env.GROQ_API_KEY /\ boot \in {"selected", "raised", "serving"}

\* The probes made so far are the first candidates of ExpectedOrder, in order.
ProbedInOrder ==
    /\ Len(probes) <= Len(ExpectedOrder)
    /\ \A i \in 1..Len(probes) : probes[i].candidate = ExpectedOrder[i]

\* The selection returned the candidate of the first probe that succeeded, and
\* probed nothing after it; with no successful probe it went through every
\* candidate, raised and left self.model unset.
FirstSuccessAdopted ==
    IF \E i \in 1..Len(probes) : probes[i].ok
    THEN /\ probes[Len(probes)].ok
         /\ \A i \in 1..(Len(probes) - 1) : ~probes[i].ok
         /\ model = probes[Len(probes)].candidate
    ELSE /\ Len(probes) = Len(ExpectedOrder)
         /\ model = Unset
         /\ source = "none"
         /\ boot # "selected"

\* C12: _find_working_model probes the override (if set), the cached
\* identifier (if the file exists and is not blank) and the fallback list, in
\* this order, and returns the first candidate whose probe succeeds; when
\* every probe fails it raises and no model is selected. (Refuted: a fallback
\* model whose probe succeeded is passed over when the write of
\* working_model.txt raises.)
C12Claim ==
    /\ ProbedInOrder
    /\ SelectionOver => FirstSuccessAdopted

\* C12 holds for every selection in which no write of the cache file raised.
C12WritesSucceed ==
    /\ ProbedInOrder
    /\ (SelectionOver /\ \A i \in 1..Len(probes) : probes[i].cached # "OSError")
           => FirstSuccessAdopted

\* The override and the cached identifier failed their probes and a model of
\* the fallback list was adopted.
C12FallsThrough ==
    /\ SelectionOver
    /\ Len(probes) >= 3
    /\ probes[1].candidate = env.LLM_MODEL
    /\ probes[2].candidate = cache0
    /\ source = "fallback"
    /\ \A i \in 1..Len(probes) : probes[i].cached # "OSError"

\* C13: when no candidate passed its probe (the selection raised), the process
\* answers no request. (Refuted: app.py catches the exception of KrishiGPT(),
\* sets krishigpt = None and serves its routes; /health answers 200 and
\* /api/chat answers 503.)
C13Claim == (SelectionOver /\ model = Unset) => responses = {}

\* What the code does ensure after a failed selection: there is no engine
\* object and no request reaches get_response.
C13NoEngine ==
    (SelectionOver /\ model = Unset) =>
        /\ krishigpt = "None"
        /\ nCalls = 0
        /\ \A p \in Procs : op[p] = "none" /\ obs[p].llm = 0

C14WitnessCached ==
    /\ SelectionOver
    /\ source = "cache"
    /\ cache_file = cache0
    /\ model = cache0

\* C15: self.model is assigned once, by the selection at startup; from then on
\* it never changes, every LLM request of every get_response call names it,
\* and no step after startup (no failure of an LLM request) probes or selects
\* again.
C15Theorem ==
    [][/\ model # Unset => model' = model
       /\ boot = "serving" => UNCHANGED <<boot, probes, source, fb, model>>
       /\ \A p \in Procs : obs'[p].models \subseteq {model'} \ {Unset}]_vars

\* A call whose first two requests failed and whose third succeeded, all naming
\* the model adopted from the fallback list although LLM_MODEL names another.
C15Witness ==
    /\ boot = "serving"
    /\ source = "fallback"
    /\ env.LLM_MODEL \notin {NoValue, model}
    /\ \E p \in Procs :
         /\ Responded(p)
         /\ obs[p].llm = DefaultMaxRetries
         /\ obs[p].ok
         /\ obs[p].models = {model}

\* ---- the NLU helpers and the prompt builder
\* Keyword kw stands in qry at position i, letters compared without regard
\* to case.
OccursAt(kw, qry, i) ==
    /\ i + Len(kw) - 1 <= Len(qry)
    /\ \A j \in 1..Len(kw) : LowerChar(kw[j]) = LowerChar(qry[i + j - 1])

Occurs(kw, qry) == \E i \in 1..(Len(qry) + 1) : OccursAt(kw, qry, i)

\* The item crop of the knowledge base has a keyword that occurs in qry.
CropMatches(crop, qry) ==
    \E k \in DOMAIN Get(crop[2], "keywords", <<>>) :
        Occurs(Get(crop[2], "keywords", <<>>)[k], qry)

\* No crop of the knowledge base has a keyword that occurs in the query.
NoCropMatches ==
    \A c \in DOMAIN crop_data.crops : ~CropMatches(crop_data.crops[c], text)

\* C16: for a query in which no crop keyword occurs and whose type is not
\* scheme, _get_relevant_context returns the empty string, and the system
\* message get_response builds is the system prompt (and the stage note, if
\* there is one) with neither the knowledge-base header nor the instruction
\* suffix.
C16Theorem ==
    (/\ called \in {"_get_relevant_context", "get_response"}
     /\ NoCropMatches
     /\ detect_query_type(text) # "scheme") =>
        /\ context_ret = EmptyString
        /\ called = "get_response" =>
            /\ prompt = system_prompt \o stage_text
            /\ ~In(KnowledgeHeader, prompt)
            /\ ~In(InstructionSuffix, prompt)

\* A disease query about a crop the knowledge base does not have, with a stage
\* note: the prompt was built.
C16Witness ==
    /\ called = "get_response"
    /\ crop_data.crops # <<>>
    /\ NoCropMatches
    /\ detect_query_type(text) = "disease"
    /\ stage_text = StageNote([crop |-> Spell.cotton, das |-> 45,
                               label |-> "vadhichi avastha"])
    /\ prompt = system_prompt \o stage_text

\* The other side of C16: with a crop detected or a query of type scheme and
\* schemes or crops in the knowledge base, the header and the suffix are there.
C16WitnessSection ==
    /\ called = "get_response"
    /\ ~NoCropMatches
    /\ In(KnowledgeHeader, prompt)
    /\ In(InstructionSuffix, prompt)

\* The first item of the knowledge base, in its order, with a keyword that
\* occurs in qry.
FirstMatching(data, qry) ==
    data.crops[CHOOSE c \in DOMAIN data.crops :
        /\ CropMatches(data.crops[c], qry)
        /\ \A b \in 1..(c - 1) : ~CropMatches(data.crops[b], qry)]

\* The names of all diseases of the knowledge base.
DiseaseNames ==
    UNION {{Get(crop_data.crops[c][2], "common_diseases", <<>>)[d].name :
                d \in DOMAIN Get(crop_data.crops[c][2], "common_diseases", <<>>)} :
           c \in DOMAIN crop_data.crops}

IsDiseaseName(piece) == piece \in DiseaseNames

\* The diseases a context names, in the order of the text.
DiseasesListed(context) == SelectSeq(context, IsDiseaseName)

\* A context was built from the query.
ContextBuilt == called \in {"_get_relevant_context", "get_response"}

\* C17: for a query of type disease in which a crop is detected, the context
\* names at most 3 diseases: the first 3 of that crop's common_diseases (all
\* of them if it has fewer), in the order of the knowledge base.
C17Theorem ==
    (ContextBuilt /\ ~NoCropMatches /\ detect_query_type(text) = "disease") =>
        LET diseases == Get(FirstMatching(crop_data, text)[2], "common_diseases", <<>>)
            listed == DiseasesListed(context_ret)
        IN  /\ Len(listed) <= 3
            /\ Len(listed) <= Len(diseases)
            /\ (Len(diseases) >= 3) => Len(listed) = 3
            /\ (Len(diseases) < 3) => Len(listed) = Len(diseases)
            /\ \A i \in DOMAIN listed : listed[i] = diseases[i].name

\* A disease query about the crop with four diseases: three are named, the
\* fourth is not.
C17Witness ==
    /\ ContextBuilt
    /\ ~NoCropMatches
    /\ detect_query_type(text) = "disease"
    /\ FirstMatching(crop_data, text) = Tomato
    /\ DiseasesListed(context_ret) = <<"Early blight", "Late blight", "Leaf curl">>
    /\ ~In(<<"Fusarium wilt">>, context_ret)

\* The names of the schemes of the knowledge base, in its order.
SchemeNameList ==
    [s \in DOMAIN crop_data.government_schemes |->
        crop_data.government_schemes[s].name]

IsSchemeName(piece) == \E s \in DOMAIN SchemeNameList : SchemeNameList[s] = piece

\* The schemes a context names, in the order of the text.
SchemesListed(context) == SelectSeq(context, IsSchemeName)

\* The header of the scheme section.
SchemeHeader == SchemeSection(DefaultData)[1]

\* C18: for a query of type scheme the context names every scheme of the
\* knowledge base, in its order, with its benefit, whether or not a crop was
\* detected; for a query of any other type the context has no scheme and no
\* scheme section.
C18Theorem ==
    ContextBuilt =>
        IF detect_query_type(text) = "scheme"
        THEN /\ SchemesListed(context_ret) = SchemeNameList
             /\ In(SchemeHeader, context_ret)
             /\ \A s \in DOMAIN crop_data.government_schemes :
                    In(<<crop_data.government_schemes[s].benefit>>, context_ret)
        ELSE /\ SchemesListed(context_ret) = <<>>
             /\ ~In(SchemeHeader, context_ret)

\* A scheme query that names a crop of the knowledge base: the crop facts and
\* both schemes are in the context.
C18Witness ==
    /\ ContextBuilt
    /\ detect_query_type(text) = "scheme"
    /\ ~NoCropMatches
    /\ Len(SchemesListed(context_ret)) = 2
    /\ SchemesListed(context_ret) = SchemeNameList
    /\ In(<<FirstMatching(crop_data, text)[2].season>>, context_ret)

\* The query "PM-KISAN yojana ki jankari do": no crop, type scheme, both
\* schemes in the context.
C18WitnessSchemeQuery ==
    /\ ContextBuilt
    /\ text = SchemeQuery
    /\ NoCropMatches
    /\ detect_query_type(text) = "scheme"
    /\ SchemesListed(context_ret) = <<"PM-KISAN", "Kisan Credit Card">>

\* The keyword groups of _detect_query_type in the order of their tests.
Priority == <<"disease", "fertilizer", "scheme", "irrigation">>

GroupKeywords(group) ==
    CASE group = "disease" -> disease_keywords
      [] group = "fertilizer" -> fertilizer_keywords
      [] group = "scheme" -> scheme_keywords
      [] group = "irrigation" -> irrigation_keywords

\* The places in Priority of the groups with a keyword that occurs in qry.
GroupsMatching(qry) ==
    {g \in DOMAIN Priority :
        \E k \in DOMAIN GroupKeywords(Priority[g]) :
            Occurs(GroupKeywords(Priority[g])[k], qry)}

\* C19: _detect_query_type returns one type: general when no group has a
\* keyword in the query, else the group that comes first in the order disease,
\* fertilizer, scheme, irrigation among those that have one.
C19Theorem ==
    (called = "_detect_query_type") =>
        /\ qtype_ret \in {Priority[g] : g \in DOMAIN Priority} \cup {"general"}
        /\ LET matching == GroupsMatching(text)
           IN  /\ (matching = {}) <=> (qtype_ret = "general")
               /\ \A g \in matching :
                      (\A h \in matching : g <= h) => qtype_ret = Priority[g]

\* A query with a fertilizer keyword and a disease keyword, the fertilizer
\* keyword first: the type is disease.
C19Witness ==
    /\ called = "_detect_query_type"
    /\ GroupsMatching(text) = {1, 2}
    /\ In(<<"d", "a", "p">>, SubSeq(lower(text), 1, 3))
    /\ qtype_ret = "disease"

\* A query with an irrigation and a scheme keyword is of type scheme, one with
\* no keyword is general.
C19WitnessScheme ==
    /\ called = "_detect_query_type"
    /\ GroupsMatching(text) = {3, 4}
    /\ qtype_ret = "scheme"

C19WitnessGeneral ==
    /\ called = "_detect_query_type"
    /\ text # EmptyString
    /\ GroupsMatching(text) = {}
    /\ qtype_ret = "general"

\* C20: _detect_crop returns the first item of the knowledge base, in its
\* iteration order, that has a keyword occurring in the query without regard
\* to case, and (None, None) when no item has one.
C20Theorem ==
    (called = "_detect_crop") =>
        IF NoCropMatches THEN crop_ret = NoCrop
        ELSE crop_ret = FirstMatching(crop_data, text)

\* Two crops have a keyword in the query; the one returned comes first in the
\* knowledge base, the other one later.
C20Witness ==
    /\ called = "_detect_crop"
    /\ crop_ret # NoCrop
    /\ \E c, b \in DOMAIN crop_data.crops :
            /\ c < b
            /\ crop_data.crops[c] = crop_ret
            /\ CropMatches(crop_data.crops[b], text)

\* A query in upper case matches a keyword written with one capital letter.
C20WitnessCase ==
    /\ called = "_detect_crop"
    /\ text = <<"T", "O", "M", "A", "T", "O">>
    /\ crop_ret = Tomato

\* No crop matches a query that is not empty.
C20WitnessNone ==
    /\ called = "_detect_crop"
    /\ crop_data.crops # <<>>
    /\ text # EmptyString
    /\ NoCropMatches
    /\ crop_ret = NoCrop

\* ---- scenarios, stage estimator, endpoints
\* C21: for the query YellowLeavesQuery and a knowledge base whose tomato
\* entry has the keyword "tamatar" (in Devanagari), the detected crop is
\* tomato, the query type is disease, and the context holds the season and
\* water facts of tomato and up to 3 diseases.
C21Claim ==
    (/\ text = YellowLeavesQuery
     /\ \E c \in DOMAIN crop_data.crops : crop_data.crops[c] = Tomato) =>
        /\ called = "_detect_crop" => crop_ret = Tomato
        /\ called = "_detect_query_type" => qtype_ret = "disease"
        /\ ContextBuilt =>
            /\ In(<<Tomato[2].season>>, context_ret)
            /\ In(<<Tomato[2].water_requirement>>, context_ret)
            /\ Len(DiseasesListed(context_ret)) \in 1..3

\* What holds of the scenario: tomato is detected and its season and water
\* facts are in the context; the type returned is general, and the context
\* has the fertilizer schedule and no disease.
C21General ==
    (/\ text = YellowLeavesQuery
     /\ \E c \in DOMAIN crop_data.crops : crop_data.crops[c] = Tomato) =>
        /\ called = "_detect_crop" => crop_ret = Tomato
        /\ called = "_detect_query_type" => qtype_ret = "general"
        /\ ContextBuilt =>
            /\ In(<<Tomato[2].season>>, context_ret)
            /\ In(<<Tomato[2].water_requirement>>, context_ret)
            /\ DiseasesListed(context_ret) = <<>>
            /\ In(FertilizerSection(Tomato[2])[1], context_ret)

\* The value is a str one of the three formats accepts.
AcceptedDate(v) ==
    /\ v.type = "str"
    /\ \E f \in DOMAIN DateFormats : Strptime(strip(v.value), DateFormats[f])

\* The day a sowing date of an accepted format names.
SowingDay(v) ==
    StrptimeDate(strip(v.value),
                 DateFormats[CHOOSE f \in DOMAIN DateFormats :
                     /\ Strptime(strip(v.value), DateFormats[f])
                     /\ \A g \in 1..(f - 1) : ~Strptime(strip(v.value), DateFormats[g])])

\* A sowing date was given and matches none of the accepted formats.
NoFormat(v) == Bool(v) /\ ~AcceptedDate(v)

\* The sowing date names a day after today.
InFuture(v) == AcceptedDate(v) /\ Ordinal(SowingDay(v)) > Ordinal(today)

\* A crop was given and STAGE_RULES has no table for it.
NoRules(c) ==
    /\ Bool(c)
    /\ \A k \in DOMAIN STAGE_RULES : Spell[k] # lower(c.value)

\* One of the three cases of C22 holds of the crop and sowing date in meta.
NoStageCase ==
    /\ meta # NoMeta
    /\ \/ InFuture(meta.sowing_date)
       \/ NoFormat(meta.sowing_date)
       \/ NoRules(meta.crop)

\* get_response was called and has built its system message, or has raised.
PromptCalled == called \in {"get_response", "get_response raised"}

\* C22: when the sowing date is in the future, or matches none of the
\* accepted formats, or the crop has no stage rule table, _get_stage_info
\* returns None and does not raise, and get_response builds its system
\* message without a stage note.
C22Claim ==
    NoStageCase =>
        /\ called = "_get_stage_info" => stage_ret = NoStage
        /\ PromptCalled => (called = "get_response" /\ stage_text = EmptyString)

\* The part of C22 that holds: for a sowing date that is a str,
\* _get_stage_info returns None in the three cases, and get_response adds no
\* stage note unless the crop of meta has no table and the query names a
\* crop that has one.
C22Strings ==
    (NoStageCase /\ meta.sowing_date.type = "str") =>
        /\ called = "_get_stage_info" => stage_ret = NoStage
        /\ PromptCalled =>
            /\ called = "get_response"
            /\ (InFuture(meta.sowing_date) \/ NoFormat(meta.sowing_date)
                \/ NoCropMatches
                \/ NoRules(Str(Spell[FirstMatching(crop_data, text)[1]])))
               => stage_text = EmptyString

\* The two ways C22 fails: a sowing date that is a number makes
\* parse_date_str raise, and a crop without table is replaced by the crop
\* detected in the query.
C22RaisesOnNumber ==
    ~(/\ called = "get_response raised"
      /\ meta.sowing_date.type = "int"
      /\ stage_ret = Raises("AttributeError"))

C22NoteFromQuery ==
    ~(/\ called = "get_response"
      /\ meta # NoMeta
      /\ NoRules(meta.crop)
      /\ stage_text # EmptyString
      /\ stage_ret # NoStage
      /\ stage_ret.crop = Spell.tomato)

\* The number of the day dt in the count of days that starts on
\* 24 November 4714 BC (the Julian day number), by the closed formula; it
\* does not use Ordinal.
DayNumber(dt) ==
    LET a == (14 - dt.month) \div 12
        yy == dt.year + 4800 - a
        mm == dt.month + 12 * a - 3
    IN  dt.day + ((153 * mm + 2) \div 5) + 365 * yy
        + (yy \div 4) - (yy \div 100) + (yy \div 400) - 32045

\* _get_stage_info was called with a crop that has a rule table and a sowing
\* date of an accepted format that is not after today.
StageCase ==
    /\ called = "_get_stage_info"
    /\ Bool(meta.crop)
    /\ ~NoRules(meta.crop)
    /\ AcceptedDate(meta.sowing_date)
    /\ DayNumber(SowingDay(meta.sowing_date)) <= DayNumber(today)

\* The rule table of the crop of meta.
RulesOfMeta ==
    STAGE_RULES[CHOOSE k \in DOMAIN STAGE_RULES : Spell[k] = lower(meta.crop.value)]

\* The whole days from the sowing date of meta to today.
DaysAfterSowing == DayNumber(today) - DayNumber(SowingDay(meta.sowing_date))

\* C23: for a crop with a rule table and a valid sowing date not after
\* today, _get_stage_info returns das equal to the whole days from the sowing
\* date to today and the label of the bucket whose inclusive range holds
\* das.
C23Claim ==
    StageCase =>
        /\ stage_ret # NoStage
        /\ ~Raised(stage_ret)
        /\ stage_ret.das = DaysAfterSowing
        /\ \E r \in DOMAIN RulesOfMeta :
              /\ RulesOfMeta[r][1] <= stage_ret.das
              /\ stage_ret.das <= RulesOfMeta[r][2]
              /\ stage_ret.label = RulesOfMeta[r][3]

\* The part of C23 that holds: das is always the exact difference, and up to
\* 999 days the label is that of the bucket that holds das.
C23UpTo999 ==
    StageCase =>
        /\ stage_ret # NoStage
        /\ ~Raised(stage_ret)
        /\ stage_ret.das = DaysAfterSowing
        /\ stage_ret.crop = lower(meta.crop.value)
        /\ stage_ret.das <= 999 =>
              \E r \in DOMAIN RulesOfMeta :
                  /\ RulesOfMeta[r][1] <= stage_ret.das
                  /\ stage_ret.das <= RulesOfMeta[r][2]
                  /\ stage_ret.label = RulesOfMeta[r][3]
                  /\ \A q \in DOMAIN RulesOfMeta :
                        (q # r) => ~(/\ RulesOfMeta[q][1] <= stage_ret.das
                                     /\ stage_ret.das <= RulesOfMeta[q][2])

\* Scenario C: cotton sown on "01-10-2025", asked 45 days later, gets das 45
\* and the label of the bucket 21 to 45, and the note is in the system
\* message.
C23ScenarioC ==
    (/\ called = "get_response"
     /\ meta = MetaOf(Str(Spell.cotton), Str(<<"0", "1", "-", "1", "0", "-", "2", "0", "2", "5">>))
     /\ today = Date(2025, 11, 15))
    => /\ stage_ret = [crop |-> Spell.cotton, das |-> 45, label |-> STAGE_RULES.cotton[2][3]]
       /\ stage_text = StageNote(stage_ret)
       /\ Occurs(stage_text, prompt)

\* Scenario C is reached.
C23ScenarioCReached ==
    ~(/\ called = "get_response"
      /\ meta = MetaOf(Str(Spell.cotton), Str(<<"0", "1", "-", "1", "0", "-", "2", "0", "2", "5">>))
      /\ today = Date(2025, 11, 15)
      /\ stage_ret # NoStage)

\* C24: the last bucket of every crop has no upper end: every das at or
\* beyond its start gets its label.
C24Claim ==
    (/\ called = "_get_stage_info"
     /\ stage_ret # NoStage
     /\ ~Raised(stage_ret))
    => \A k \in DOMAIN STAGE_RULES :
          (/\ stage_ret.crop = Spell[k]
           /\ stage_ret.das >= STAGE_RULES[k][Len(STAGE_RULES[k])][1])
          => stage_ret.label = STAGE_RULES[k][Len(STAGE_RULES[k])][3]

\* What the code does: the last bucket ends at 999; from the start of the
\* last bucket to 999 the label is the last bucket's, from 1000 on it is the
\* label set before the loop.
C24EndsAt999 ==
    (/\ called = "_get_stage_info"
     /\ stage_ret # NoStage
     /\ ~Raised(stage_ret))
    => \A k \in DOMAIN STAGE_RULES :
          (/\ stage_ret.crop = Spell[k]
           /\ stage_ret.das >= STAGE_RULES[k][Len(STAGE_RULES[k])][1])
          => stage_ret.label = IF stage_ret.das <= 999
                               THEN STAGE_RULES[k][Len(STAGE_RULES[k])][3]
                               ELSE DefaultLabel

\* A das of 1000 with the label set before the loop is reached.
C24DefaultReached ==
    ~(/\ called = "_get_stage_info"
      /\ stage_ret # NoStage
      /\ ~Raised(stage_ret)
      /\ stage_ret.das = 1000
      /\ stage_ret.label = DefaultLabel)

\* C25: with the knowledge base _load_crop_data returns when there is no
\* crop_data.json, _get_relevant_context returns the empty string for every
\* query, queries of type scheme included, and get_response builds its
\* system message from the system prompt and the stage note alone.
C25Claim ==
    (ContextBuilt /\ crop_data = DefaultData) =>
        /\ context_ret = EmptyString
        /\ called = "get_response" => prompt = system_prompt \o stage_text

\* What the code does with that knowledge base: the context is empty for a
\* query of any type but scheme, and for a query of type scheme it is the
\* header of the scheme section alone, which get_response puts into the
\* system message with the knowledge header and the instruction.
C25HeaderAlone ==
    (ContextBuilt /\ crop_data = DefaultData) =>
        IF detect_query_type(text) = "scheme"
        THEN /\ context_ret = SchemeHeader
             /\ called = "get_response" =>
                   prompt = system_prompt \o stage_text \o KnowledgeHeader
                            \o SchemeHeader \o InstructionSuffix
        ELSE /\ context_ret = EmptyString
             /\ called = "get_response" => prompt = system_prompt \o stage_text

\* The scheme query with the default knowledge base is reached.
C25HeaderReached ==
    ~(/\ called = "get_response"
      /\ crop_data = DefaultData
      /\ text = SchemeQuery
      /\ context_ret # EmptyString)

\* The headers of the disease section and of the fertilizer section.
DiseaseHeader == DiseaseSection(<<>>)[1]

FertilizerHeader == FertilizerSection(<<>>)[1]

\* The section a piece of a context opens or belongs to, by the text the code
\* writes in front of every line: 1 crop facts, 2 disease or fertilizer
\* detail, 3 schemes, 0 for a value taken from the knowledge base.
SectionOf(piece) ==
    CASE piece \in {"[pin] fasal (", "   - mausam: ", "   - pani: "} -> 1
      [] piece \in {"[microscope] aam bimariyan:", "   lakshan: ", "   karan: ",
                    "   upchar:", "      * ", "   kharch: Rs",
                    "[herb] khad anusuchi:", "   * ", "     kharch: Rs"} -> 2
      [] piece \in {"[clipboard] sarkari yojanaen:", "   labh: ", "   patrata: ",
                    "   avedan: ", "   helpline: "} -> 3
      [] OTHER -> 0

\* The sections of a context, in the order of the text.
Sections(context) ==
    LET Marked(piece) == SectionOf(piece) # 0
        marks == SelectSeq(context, Marked)
    IN  [i \in DOMAIN marks |-> SectionOf(marks[i])]

\* The sections follow each other in the order 1, 2, 3.
InOrder(sections) ==
    \A i, j \in DOMAIN sections : (i < j) => sections[i] <= sections[j]

\* The lines of a fertilizer schedule, in its order.
ScheduleLines(crop_info) ==
    LET schedule == Get(crop_info, "fertilizer_schedule", <<>>)
    IN  [f \in DOMAIN schedule |->
            <<"   * ", Get(schedule[f], "stage", ""), ": ",
              Get(schedule[f], "fertilizer", "")>>]

\* C29: when a crop is detected the context holds its season and water
\* facts; it holds the fertilizer schedule exactly when the query type is
\* fertilizer or general, the diseases only when the type is disease, and
\* neither when the type is irrigation or scheme; the sections come in the
\* order crop facts, disease or fertilizer detail, schemes.
C29Theorem ==
    ContextBuilt =>
        /\ InOrder(Sections(context_ret))
        /\ ~NoCropMatches =>
            LET crop == FirstMatching(crop_data, text)
                qtype == detect_query_type(text)
                lines == ScheduleLines(crop[2])
            IN  /\ context_ret[2] = "[pin] fasal ("
                /\ In(<<"   - mausam: ", Get(crop[2], "season", "N/A"), NL>>, context_ret)
                /\ In(<<"   - pani: ", Get(crop[2], "water_requirement", "N/A")>>,
                      context_ret)
                /\ In(FertilizerHeader, context_ret) <=> qtype \in {"fertilizer", "general"}
                /\ qtype \in {"fertilizer", "general"} =>
                      \A f \in DOMAIN lines : In(lines[f], context_ret)
                /\ In(DiseaseHeader, context_ret) <=> qtype = "disease"
                /\ qtype \in {"irrigation", "scheme"} =>
                      /\ \A i \in DOMAIN context_ret : SectionOf(context_ret[i]) # 2
                      /\ DiseasesListed(context_ret) = <<>>
                      /\ \A f \in DOMAIN lines : ~In(lines[f], context_ret)

\* A query of type general that names the tomato: the context has the crop
\* facts and then the two lines of the fertilizer schedule, and nothing else.
C29Witness ==
    /\ ContextBuilt
    /\ ~NoCropMatches
    /\ FirstMatching(crop_data, text) = Tomato
    /\ detect_query_type(text) = "general"
    /\ Sections(context_ret) = <<1, 1, 1, 2, 2, 2, 2>>
    /\ In(<<"   * ", "30 DAS", ": ", "Urea 25 kg">>, context_ret)

\* A query of type irrigation and a query of type scheme that name a crop:
\* crop facts and no detail; with the schemes after the crop facts.
C29WitnessIrrigation ==
    /\ ContextBuilt
    /\ ~NoCropMatches
    /\ detect_query_type(text) = "irrigation"
    /\ Sections(context_ret) = <<1, 1, 1>>

C29WitnessScheme ==
    /\ ContextBuilt
    /\ ~NoCropMatches
    /\ detect_query_type(text) = "scheme"
    /\ Sections(context_ret)[3] = 1
    /\ Sections(context_ret)[4] = 3

\* What follows the first n pieces of s.
After(s, n) == SubSeq(s, n + 1, Len(s))

\* s begins with t.
StartsWith(s, t) == Len(t) <= Len(s) /\ SubSeq(s, 1, Len(t)) = t

\* C30 as stated: the stage note comes before the base system prompt, and the
\* knowledge header, the context and the instruction follow exactly when the
\* context is not empty.
C30Claim ==
    called = "get_response" =>
        /\ StartsWith(prompt, stage_text \o system_prompt)
        /\ After(prompt, Len(stage_text) + Len(system_prompt))
           = IF context_ret # EmptyString
             THEN KnowledgeHeader \o context_ret \o InstructionSuffix
             ELSE EmptyString

\* C30, amended: the system message begins with the base system prompt; the
\* stage note, when there is one, follows it directly; the knowledge header,
\* the context and the instruction come after the stage note exactly when
\* the context is not empty, and nothing else is in the message.
C30Theorem ==
    called = "get_response" =>
        /\ StartsWith(prompt, system_prompt)
        /\ StartsWith(After(prompt, Len(system_prompt)), stage_text)
        /\ After(prompt, Len(system_prompt) + Len(stage_text))
           = IF context_ret # EmptyString
             THEN KnowledgeHeader \o context_ret \o InstructionSuffix
             ELSE EmptyString
        /\ context_ret = get_relevant_context(crop_data, text)
        /\ stage_text = IF stage_ret = NoStage THEN EmptyString ELSE StageNote(stage_ret)

\* A call with a stage note and a context: base prompt, note, knowledge
\* section, in this order.
C30Witness ==
    /\ called = "get_response"
    /\ stage_text # EmptyString
    /\ context_ret # EmptyString
    /\ prompt = system_prompt \o stage_text \o KnowledgeHeader \o context_ret
                \o InstructionSuffix
    /\ prompt[1] = system_prompt[1]
    /\ prompt[Len(system_prompt) + 3] = StageNote(stage_ret)[3]

\* A call with a stage note and no context: the message ends with the note.
C30WitnessNoteOnly ==
    /\ called = "get_response"
    /\ stage_text # EmptyString
    /\ context_ret = EmptyString
    /\ prompt = system_prompt \o stage_text

\* The call of thread p is a get_response that has sent a request to the LLM.
RequestSent(p) == op[p] = "get_response" /\ obs[p].llm > 0

\* s is the beginning of t.
IsPrefix(s, t) == Len(s) <= Len(t) /\ SubSeq(t, 1, Len(s)) = s

\* C26: every request get_response sends to the LLM is the system message,
\* then the newest turns of the user's history list, 20 at most and oldest
\* first, then the query as a user message; it never has more than 22
\* messages, and only its first message is a system message.
C26Theorem ==
    \A p \in Procs :
        RequestSent(p) =>
            LET request == obs[p].request
                middle == SubSeq(request, 2, Len(request) - 1)
            IN  /\ Len(request) >= 2
                /\ Len(request) <= HistoryCap + 2
                /\ request[1] = SystemMessage(query[p])
                /\ request[Len(request)] = UserTurn(query[p])
                /\ Len(middle) <= HistoryCap
                /\ middle = Newest(obs[p].listed, HistoryCap)
                /\ \A i \in DOMAIN middle : middle[i].role \in {"user", "assistant"}
                /\ IsPrefix(obs[p].loaded, obs[p].listed)

\* A request built from a list of more than 20 turns (a concurrent call of
\* the same user had appended to it): 22 messages, the oldest turns of the
\* list left out.
C26Witness ==
    \E p \in Procs :
        /\ RequestSent(p)
        /\ Len(obs[p].listed) > HistoryCap
        /\ Len(obs[p].request) = HistoryCap + 2
        /\ obs[p].request[2] = obs[p].listed[Len(obs[p].listed) - HistoryCap + 1]
        /\ obs[p].request[2] # obs[p].listed[1]

\* A request of a user without history: the system message and the query.
C26WitnessFirstQuery ==
    \E p \in Procs :
        /\ RequestSent(p)
        /\ obs[p].request = <<SystemMessage(query[p]), UserTurn(query[p])>>

\* The last request was a reset of user u's history: POST /api/clear-history
\* with user_id u, or a WhatsApp reset keyword sent by u.
ResetHandled ==
    /\ http.endpoint \in {"/api/clear-history", "/whatsapp/webhook"}
    /\ http.user_id # NoValue

\* The last request is a chat of a user whose request before it was a reset,
\* and get_response has sent its request to the LLM.
ChatAfterReset ==
    /\ http.endpoint \in {"/api/chat", "/api/chat-secure"}
    /\ http.after_reset
    /\ RequestSent(SeqProc)

\* C27: a POST to /api/clear-history with a non-empty user_id and a WhatsApp
\* reset keyword are answered with success ("History cleared"), and the
\* next get_response of that user sends no earlier turn to the LLM: its
\* request is the system message and the query.
C27Claim ==
    /\ ResetHandled => http.status \in {"200", "200 cleared"}
    /\ ChatAfterReset =>
          obs[SeqProc].request = <<SystemMessage(query[SeqProc]),
                                   UserTurn(query[SeqProc])>>

\* What the code does: the reset is answered 500 by /api/clear-history and
\* with the apology by the webhook, and _clear_history is never called.
C27NeverCleared ==
    /\ ResetHandled =>
          http.status = (IF http.endpoint = "/api/clear-history"
                         THEN "500" ELSE "200 apology")
    /\ op[SeqProc] # "clear_history"

\* A reset request changes nothing in the store.
C27StoreUntouched ==
    [][(http' # http /\ http'.endpoint \in {"/api/clear-history", "/whatsapp/webhook"})
       => UNCHANGED <<storeVars, engineVars>>]_vars

\* After a reset, the user's chat sends all 20 earlier turns to the LLM.
C27OldTurnsSent ==
    ~(/\ ChatAfterReset
      /\ Len(obs[SeqProc].request) = HistoryCap + 2
      /\ obs[SeqProc].request[2] = UserTurn(1))

\* The last request went to /api/chat-secure while API_SECRET was set, with
\* an X-API-Key header that is not equal to it.
WrongKey ==
    /\ http.endpoint = "/api/chat-secure"
    /\ api_secret # EmptyString
    /\ http.key # api_secret

\* C28: with API_SECRET set, a request to /api/chat-secure whose X-API-Key
\* header is not equal to it is answered 401 and get_response is not called
\* for it; with API_SECRET not set the request is served without a key.
C28Claim ==
    /\ WrongKey => http.status = "401"
    /\ (http.endpoint = "/api/chat-secure" /\ api_secret = EmptyString)
          => http.status \in {"400", "get_response", "200", "500"}

\* What the code does: no request to /api/chat-secure is answered 401; each
\* one with a message reaches get_response, whatever its key.
C28AlwaysServed ==
    (http.endpoint = "/api/chat-secure") =>
        /\ http.status \in {"400", "get_response", "200", "500"}
        /\ http.status \in {"get_response", "200", "500"} =>
              (op[SeqProc] = "get_response" /\ user[SeqProc] = http.user_id)

\* A request with a wrong key, and one with no key, is answered by the LLM.
C28WrongKeyAnswered ==
    ~(/\ WrongKey
      /\ http.key = <<"k", "2">>
      /\ http.status = "200"
      /\ result[SeqProc].kind = "answer")

C28NoKeyAnswered ==
    ~(/\ WrongKey
      /\ http.key = EmptyString
      /\ http.status = "200"
      /\ result[SeqProc].kind = "answer")

\* get_response was called with a meta and has a stage_info.
NoteComputed ==
    /\ called = "get_response"
    /\ meta # NoMeta
    /\ stage_ret # NoStage

\* C31: the stage note is computed from the crop of meta when meta has one,
\* and from the crop detected in the query only when meta has a sowing date
\* and no crop; a crop given in meta is never replaced by a detected one.
C31Claim ==
    NoteComputed =>
        IF Bool(meta.crop)
        THEN stage_ret.crop = lower(meta.crop.value)
        ELSE /\ Bool(meta.sowing_date)
             /\ ~NoCropMatches
             /\ stage_ret.crop = Spell[FirstMatching(crop_data, text)[1]]

\* What the code does: the crop of meta is used when it has a rule table;
\* when it has none, or meta has no crop, the note is computed from the crop
\* detected in the query.
C31FallbackWhenNone ==
    NoteComputed =>
        IF Bool(meta.crop) /\ ~NoRules(meta.crop)
        THEN stage_ret.crop = lower(meta.crop.value)
        ELSE /\ Bool(meta.sowing_date)
             /\ ~NoCropMatches
             /\ stage_ret.crop = Spell[FirstMatching(crop_data, text)[1]]

\* meta names wheat, the query names the tomato: the note is the tomato's.
C31Replaced ==
    ~(/\ NoteComputed
      /\ Bool(meta.crop)
      /\ lower(meta.crop.value) = <<"w", "h", "e", "a", "t">>
      /\ stage_ret.crop = Spell.tomato
      /\ stage_text = StageNote(stage_ret))

\* meta has a sowing date and no crop: the note is computed from the query.
C31FromQuery ==
    ~(/\ NoteComputed
      /\ ~Bool(meta.crop)
      /\ stage_ret.crop = Spell.tomato)

\* The stage of its call a get_response thread is in: 1 START (the history
\* is being loaded), 2 HISTORY_LOADED, 3 CONTEXT_BUILT and attempts, 4 the
\* end: SUCCESS (persist, return) after an attempt that succeeded, EXHAUSTED
\* after none.
CallStage(p) ==
    CASE pc[p] \in {"gh_call", "gh_wait", "gh_mem"} -> 1
      [] pc[p] = "build" -> 2
      [] pc[p] = "llm" -> 3
      [] OTHER -> 4

\* The call of p has written to the history store, or to the list the store
\* holds.
HasWritten(p) ==
    \/ obs[p].appended # <<>>
    \/ obs[p].sets > 0
    \/ obs[p].written # <<>>
    \/ obs[p].backend # "none"

\* C32: a get_response call goes through START, HISTORY_LOADED,
\* CONTEXT_BUILT, its attempts, then SUCCESS or EXHAUSTED: the history is
\* loaded once and the messages are built once, both before the first
\* attempt; every attempt sends the list built then; the store is written
\* only after an attempt that succeeded.
C32Theorem ==
    \A p \in Procs :
        (op[p] = "get_response" /\ pc[p] # "raised") =>
            /\ obs[p].loads = (IF CallStage(p) = 1 THEN 0 ELSE 1)
            /\ obs[p].builds = (IF CallStage(p) <= 2 THEN 0 ELSE 1)
            /\ CallStage(p) <= 2 => (obs[p].llm = 0 /\ obs[p].sent = {})
            /\ obs[p].llm > 0 =>
                  /\ obs[p].sent = {obs[p].request}
                  /\ obs[p].request = Messages(SystemMessage(query[p]),
                                               obs[p].listed, query[p])
            /\ CallStage(p) <= 3 => (~obs[p].ok /\ ~HasWritten(p))
            /\ HasWritten(p) => (obs[p].ok /\ CallStage(p) = 4)
            /\ pc[p] = "done" =>
                  IF obs[p].ok
                  THEN obs[p].sets = 1 /\ Len(obs[p].appended) = 2
                  ELSE ~HasWritten(p) /\ obs[p].llm = max_retries[p]

\* A call whose first attempt failed and whose second succeeded: one load,
\* one list of messages sent twice, the exchange persisted.
C32Witness ==
    \E p \in Procs :
        /\ op[p] = "get_response"
        /\ pc[p] = "done"
        /\ obs[p].llm = 2
        /\ obs[p].slept = 1
        /\ obs[p].ok
        /\ obs[p].loads = 1
        /\ obs[p].builds = 1
        /\ Cardinality(obs[p].sent) = 1
        /\ obs[p].sets = 1

\* A call that used up its attempts: nothing written.
C32WitnessExhausted ==
    \E p \in Procs :
        /\ op[p] = "get_response"
        /\ pc[p] = "done"
        /\ obs[p].llm = 2
        /\ ~obs[p].ok
        /\ ~HasWritten(p)
        /\ result[p] = FallbackMessage

\* The stage of a call never goes back, and the store changes only in the
\* last stage of a call that had a successful attempt, or by a clear.
C32StageOrder ==
    [][\A p \in Procs :
          /\ (op[p] = "get_response" /\ op'[p] = "get_response"
              /\ ~(Free(p) /\ ~Free(p)'))
                => CallStage(p)' >= CallStage(p)
          /\ (kv' # kv \/ conversations' # conversations) =>
                \E q \in Procs :
                    \/ op[q] = "clear_history"
                    \/ (op[q] = "get_response" /\ obs[q].ok /\ CallStage(q) = 4)]_vars

\* Thread p is inside a get_response call.
InGetResponse(p) == op[p] = "get_response" /\ ~Free(p)

\* The get_response call of thread p has returned after a successful attempt.
EndedInSuccess(p) ==
    /\ op[p] = "get_response"
    /\ pc[p] = "done"
    /\ obs[p].ok

\* The get_response call of thread p has returned after range(max_retries)
\* was used up with no successful attempt.
EndedExhausted(p) ==
    /\ op[p] = "get_response"
    /\ pc[p] = "done"
    /\ ~obs[p].ok
    /\ obs[p].llm = max_retries[p]

\* C33: provided every LLM call and every store call returns or fails in the
\* end, a get_response call never makes more attempts than max_retries and
\* every call that was started completes, after a successful attempt or with
\* all attempts used up.
C33Theorem ==
    /\ [](\A p \in Procs :
             op[p] = "get_response" => obs[p].llm <= max_retries[p])
    /\ (InGetResponse(SeqProc) ~>
            (EndedInSuccess(SeqProc) \/ EndedExhausted(SeqProc)))

\* A call has completed after its first attempt failed and was retried.
C33Witness ==
    \E p \in Procs :
        /\ EndedInSuccess(p) \/ EndedExhausted(p)
        /\ obs[p].llm = 2
        /\ obs[p].slept >= 1
        /\ max_retries[p] = 2

\* A call has completed with every attempt failed.
C33WitnessExhausted ==
    \E p \in Procs :
        /\ EndedExhausted(p)
        /\ obs[p].llm = 2
        /\ result[p] = FallbackMessage

\* C34: time.sleep runs exactly once after each failed attempt that is
\* followed by another attempt. While the loop is about to make an attempt
\* every attempt made so far failed and was followed by a wait; once the loop
\* is left (after a success or after the last failure) the last attempt was
\* not followed by a wait, so a call that exhausted n attempts waited n - 1
\* times.
C34Theorem ==
    \A p \in Procs :
        op[p] = "get_response" =>
            /\ obs[p].llm = 0 => obs[p].slept = 0
            /\ (obs[p].llm >= 1 /\ pc[p] = "llm") => obs[p].slept = obs[p].llm
            /\ (obs[p].llm >= 1 /\ pc[p] # "llm") =>
                   obs[p].slept = obs[p].llm - 1
            /\ (EndedExhausted(p) /\ max_retries[p] >= 1) =>
                   obs[p].slept = max_retries[p] - 1

\* A call has exhausted two attempts and waited once.
C34Witness ==
    \E p \in Procs :
        /\ EndedExhausted(p)
        /\ max_retries[p] = 2
        /\ obs[p].llm = 2
        /\ obs[p].slept = 1

\* A call has succeeded at its first attempt and did not wait.
C34WitnessNoWait ==
    \E p \in Procs :
        /\ EndedInSuccess(p)
        /\ obs[p].llm = 1
        /\ obs[p].slept = 0

\* C34, step by step: the wait count goes up by one exactly in a step that
\* records a failed attempt and leaves the loop running.
C34WaitSteps ==
    [][\A p \in Procs :
          obs'[p].slept # obs[p].slept =>
              \/ obs'[p] = NoObs
              \/ /\ obs'[p].slept = obs[p].slept + 1
                 /\ obs'[p].llm = obs[p].llm + 1
                 /\ ~obs'[p].ok
                 /\ pc'[p] = "llm"
                 /\ attempt'[p] < max_retries[p]]_vars

\* The buckets of a rule table that hold das, by the test of _get_stage_info.
BucketsOf(rules, das) == {r \in DOMAIN rules : InBucket(das, rules[r])}

\* The upper limit of the last bucket of a rule table.
LastLimit(rules) == rules[Len(rules)][2]

\* The rule table starts at day 0, every bucket has its lower limit at or
\* below its upper limit, and every bucket but the first starts on the day
\* after the upper limit of the bucket before it.
OrderedContiguous(rules) ==
    /\ Len(rules) >= 1
    /\ rules[1][1] = 0
    /\ \A r \in DOMAIN rules : rules[r][1] <= rules[r][2]
    /\ \A r \in DOMAIN rules :
          r > 1 => rules[r][1] = rules[r - 1][2] + 1

\* Every das from 0 to the last upper limit is held by exactly one bucket,
\* whose label the loop of _get_stage_info finds; no das beyond is held by
\* any bucket.
ExactlyOneBucket(rules) ==
    /\ \A das \in 0 .. LastLimit(rules) :
          /\ Cardinality(BucketsOf(rules, das)) = 1
          /\ \A r \in BucketsOf(rules, das) :
                StageLabel(rules, 1, das) = rules[r][3]
    /\ \A das \in {LastLimit(rules) + 1, LastLimit(rules) + 2} :
          BucketsOf(rules, das) = {}

\* Every rule table of STAGE_RULES is ordered and contiguous and holds every
\* das of its range in exactly one bucket.
BucketsPartition ==
    \A k \in DOMAIN STAGE_RULES :
        /\ OrderedContiguous(STAGE_RULES[k])
        /\ ExactlyOneBucket(STAGE_RULES[k])

\* C35: for each crop of STAGE_RULES the buckets are ordered, contiguous and
\* non-overlapping and start at day 0, every das from 0 to the upper limit of
\* the last bucket lies in exactly one bucket, and a stage _get_stage_info
\* has computed for such a das carries the label of that one bucket.
C35Theorem ==
    /\ BucketsPartition
    /\ (StageCase /\ DaysAfterSowing <= LastLimit(RulesOfMeta)) =>
          /\ stage_ret # NoStage
          /\ ~Raised(stage_ret)
          /\ Cardinality(BucketsOf(RulesOfMeta, stage_ret.das)) = 1
          /\ \A r \in BucketsOf(RulesOfMeta, stage_ret.das) :
                stage_ret.label = RulesOfMeta[r][3]

\* _get_stage_info has computed a stage for a das that is the upper limit of
\* a bucket which is followed by another bucket.
C35Witness ==
    /\ StageCase
    /\ stage_ret # NoStage
    /\ ~Raised(stage_ret)
    /\ \E r \in DOMAIN RulesOfMeta :
          /\ r < Len(RulesOfMeta)
          /\ stage_ret.das = RulesOfMeta[r][2]
          /\ stage_ret.label = RulesOfMeta[r][3]

\* _get_stage_info has computed a stage for a das that is the lower limit of
\* a bucket other than the first.
C35WitnessLower ==
    /\ StageCase
    /\ stage_ret # NoStage
    /\ ~Raised(stage_ret)
    /\ \E r \in DOMAIN RulesOfMeta :
          /\ r > 1
          /\ stage_ret.das = RulesOfMeta[r][1]
          /\ stage_ret.label = RulesOfMeta[r][3]

\* The list h has an even number of turns, and every odd place holds a user
\* turn that is directly followed by the assistant turn of the same call.
WellPaired(h) ==
    /\ Len(h) % 2 = 0
    /\ \A i \in 1 .. Len(h) :
          i % 2 = 1 =>
              /\ h[i].role = "user"
              /\ i + 1 <= Len(h)
              /\ h[i + 1] = AiResponse(h[i].content)

\* No call is in progress.
Quiescent == \A p \in Procs : Free(p)

\* C36: when no call is in progress, whatever calls ran before and however
\* they overlapped, every stored history (in Redis and in the in-memory map)
\* has an even number of turns that alternate user, assistant, each assistant
\* turn directly after the user turn of its own call.
C36Claim ==
    Quiescent =>
        \A u \in Users : WellPaired(kv[u]) /\ WellPaired(MemoryItems(u))

\* The part of C36 that holds under overlapping calls: what Redis stores is
\* well paired in every state, calls in progress included.
C36Durable == \A u \in Users : WellPaired(kv[u])

\* Two overlapping calls of one user have left user, user, assistant,
\* assistant in the in-memory map.
C36Interleaved ==
    ~(/\ Quiescent
      /\ \E u \in Users :
            \E i \in 1 .. Len(MemoryItems(u)) :
                /\ i + 3 <= Len(MemoryItems(u))
                /\ MemoryItems(u)[i].role = "user"
                /\ MemoryItems(u)[i + 1].role = "user"
                /\ MemoryItems(u)[i + 2].role = "assistant"
                /\ MemoryItems(u)[i + 3].role = "assistant")

\* The in-memory map holds no entry.
MapEmpty == \A u \in Users : conversations[u] = NoObj

\* C37: while self.redis is the durable handle the in-memory map holds no
\* entry.
C37Theorem == redis = "client" => MapEmpty

\* C37, step by step: the in-memory map changes only in the last statement of
\* _set_history or _clear_history, run by a thread whose own store operation
\* failed against Redis or which found the handle not durable, and the handle
\* is not durable in that step.
C37WriteSteps ==
    [][conversations' # conversations =>
          /\ redis = "None"
          /\ redis' = "None"
          /\ \E p \in Procs :
                /\ pc[p] \in {"sh_mem", "cl_mem"}
                /\ Free(p)'
                /\ \A u \in Users \ {user[p]} :
                      conversations'[u] = conversations[u]]_vars

\* A call whose setex failed has downgraded the store and written the
\* history to the in-memory map.
C37Witness ==
    /\ redis = "None"
    /\ handlerRuns >= 1
    /\ \E p \in Procs :
          /\ Responded(p)
          /\ obs[p].failedHere
          /\ obs[p].backend = "memory"
          /\ conversations[user[p]] # NoObj

\* The handle is durable after calls have written to Redis, and the map is
\* empty.
C37WitnessDurable ==
    /\ redis = "client"
    /\ MapEmpty
    /\ \E p \in Procs : Responded(p) /\ obs[p].backend = "durable"

\* The probe of at least one candidate of the selection succeeded.
SomeProbeSucceeded == \E i \in 1 .. Len(probes) : probes[i].ok

\* C38: _find_working_model raises only when every probe failed: a selection
\* in which some probe succeeded has returned a model, also when the write of
\* working_model.txt raised.
C38Claim ==
    (SelectionOver /\ SomeProbeSucceeded) => model # Unset

\* What the code does: a selection in which some probe succeeded and the
\* cache write that followed it did not raise has returned that model, and a
\* selection raises only when no probe was followed by a return.
C38WriteInsideTry ==
    SelectionOver =>
        /\ (\E i \in 1 .. Len(probes) :
               probes[i].ok /\ probes[i].cached # "OSError") => model # Unset
        /\ model = Unset =>
               \A i \in 1 .. Len(probes) :
                   probes[i].ok => probes[i].cached = "OSError"

\* The selection has raised although the probe of every model of the
\* fallback list succeeded: each write of the cache file raised.
C38RaisedAfterSuccess ==
    ~(/\ SelectionOver
      /\ model = Unset
      /\ Len(probes) = Len(models_to_try)
      /\ \A i \in 1 .. Len(probes) :
            probes[i].ok /\ probes[i].cached = "OSError")

\* What _get_history(u) returns when Redis, if in use, answers: the value of
\* the key of u while the handle is durable, the entry of the in-memory map
\* otherwise.
Returned(u) == IF redis = "client" THEN kv[u] ELSE MemoryItems(u)

\* This step is a step of the call thread p is serving (its first step
\* included).
StepOf(p) ==
    <<pc[p], op[p], user[p], query[p], attempt[p], obs[p]>>'
        # <<pc[p], op[p], user[p], query[p], attempt[p], obs[p]>>

\* C39: a step of a get_response or _clear_history call for one user that
\* does not downgrade the store leaves what _get_history returns for every
\* other user as it was.
C39Theorem ==
    [][\A p \in Procs :
          (StepOf(p) /\ op'[p] \in {"get_response", "clear_history"}
              /\ redis' = redis) =>
              \A u \in Users \ {user'[p]} : Returned(u)' = Returned(u)]_vars

\* C39 without its condition does not hold: the step that downgrades the
\* store changes what _get_history returns for the other users.
C39AlsoDowngrade ==
    [][\A p \in Procs :
          (StepOf(p) /\ op'[p] \in {"get_response", "clear_history"}) =>
              \A u \in Users \ {user'[p]} : Returned(u)' = Returned(u)]_vars

\* A call for one user has written to the store while _get_history returns
\* turns for another user.
C39Witness ==
    \E p \in Procs, u \in Users :
        /\ u # user[p]
        /\ Responded(p)
        /\ obs[p].ok
        /\ obs[p].written # <<>>
        /\ Returned(u) # <<>>
        /\ Returned(user[p]) = obs[p].written

\* A _clear_history call for one user has completed in memory mode while the
\* in-memory map holds an entry of another user.
C39WitnessClear ==
    \E p \in Procs, u \in Users :
        /\ u # user[p]
        /\ op[p] = "clear_history"
        /\ pc[p] = "done"
        /\ obs[p].backend = "memory"
        /\ MemoryItems(u) # <<>>

\* The store has downgraded: an except handler of the store helpers has run.
Downgraded == redis = "None" /\ handlerRuns >= 1

\* Thread p completes the in-memory branch of _get_history in this step.
LoadsFromMemory(p) == pc[p] = "gh_mem" /\ pc'[p] # "gh_mem"

\* Thread p completes, in this step, a _set_history whose setex failed after
\* its _get_history had been answered by Redis.
KeepsAfterFailedSet(p) ==
    /\ pc[p] = "sh_mem"
    /\ pc'[p] = "done"
    /\ obs[p].failedHere
    /\ obs[p].fresh

\* C40: after a downgrade _get_history returns what the in-memory map holds
\* for the user and nothing of what only Redis holds; a _set_history that met
\* the failure itself leaves, in the map, the history it was writing: the
\* turns loaded from Redis followed by the two new ones (cut to the newest
\* 20).
C40Theorem ==
    /\ [](\A p \in Procs :
             (pc[p] = "done" /\ op[p] = "get_history" /\ Downgraded) =>
                 result[p] = ReturnsHistory(MemoryItems(user[p])))
    /\ [][\A p \in Procs :
             /\ (LoadsFromMemory(p) /\ op[p] = "get_response") =>
                    obs'[p].loaded = MemoryItems(user[p])
             /\ KeepsAfterFailedSet(p) =>
                    /\ Downgraded'
                    /\ MemoryItems(user[p])' =
                           Newest(obs[p].loaded \o OwnTurns(p), HistoryCap)]_vars

\* After a downgrade _get_history has returned the empty list for a user
\* whose turns are still in Redis.
C40Witness ==
    \E p \in Procs :
        /\ pc[p] = "done"
        /\ op[p] = "get_history"
        /\ Downgraded
        /\ kv[user[p]] # <<>>
        /\ MemoryItems(user[p]) = <<>>
        /\ result[p] = ReturnsHistory(<<>>)

\* The downgrade happened in _set_history, and a later _get_history returns
\* the turns loaded from Redis followed by the two new ones.
C40WitnessKept ==
    \E p \in Procs :
        /\ pc[p] = "done"
        /\ op[p] = "get_history"
        /\ Downgraded
        /\ nAppends[user[p]] = 1
        /\ Len(result[p].val) > 2
        /\ result[p] = ReturnsHistory(Newest(fullLog[user[p]], HistoryCap))
        /\ \A i \in 1 .. Len(kv[user[p]]) - 2 :
              result[p].val[i] = kv[user[p]][i + 2]

====
